---- MODULE Spec2Model ----
(***************************************************************************)
(* Model of the Bot-Trade decision-fusion engine and of the execution /   *)
(* risk state machine (DailyCircuitBreaker, TradingBot).                  *)
(*                                                                         *)
(* Python floats are modelled as exact rationals <<n, d>> in lowest terms  *)
(* with d > 0, so that equal values are equal tuples.                      *)
(***************************************************************************)
EXTENDS Integers, Sequences, FiniteSets, TLC

VARIABLES
    config,           \* TradingBot.config (fixed after load_config)
    balance,          \* TradingBot.balance
    positions,        \* TradingBot.positions: symbol -> position
    trades_history,   \* TradingBot.trades_history
    total_trades,     \* TradingBot.total_trades
    winning_trades,   \* TradingBot.winning_trades
    losing_trades,    \* TradingBot.losing_trades
    circuit_breaker,  \* TradingBot.circuit_breaker (DailyCircuitBreaker)
    now,              \* datetime.now(), in ticks
    pc,               \* position of TradingBot.run
    last,             \* the last operation: its arguments and result
    fusion            \* inputs and results of the pure decision functions

vars == <<config, balance, positions, trades_history, total_trades,
          winning_trades, losing_trades, circuit_breaker, now, pc, last, fusion>>

----------------------------------------------------------------------------
(* Bounds *)

DayLen == 2            \* ticks per calendar day
MaxTime == 3           \* last tick of the clock
MaxTrades == 3         \* cap on the length of the trade ledger
MaxLosses == 3         \* cap on consecutive_losses in direct update_balance calls

----------------------------------------------------------------------------
(* Exact arithmetic standing for Python float arithmetic *)

Abs(x) == IF x < 0 THEN -x ELSE x

RECURSIVE GCD(_, _)
GCD(a, b) == IF b = 0 THEN a ELSE GCD(b, a % b)

Rat(n, d) ==
    LET g == GCD(Abs(n), Abs(d))
        s == IF d < 0 THEN -1 ELSE 1
    IN  <<(s * n) \div g, (s * d) \div g>>

Num(i) == <<i, 1>>

RAdd(x, y) ==
    LET g == GCD(x[2], y[2])
    IN  Rat(x[1] * (y[2] \div g) + y[1] * (x[2] \div g), (x[2] \div g) * y[2])

RNeg(x) == <<-x[1], x[2]>>

RSub(x, y) == RAdd(x, RNeg(y))

RMul(x, y) ==
    LET a == Rat(x[1], y[2])
        b == Rat(y[1], x[2])
    IN  <<a[1] * b[1], a[2] * b[2]>>

RDiv(x, y) == RMul(x, Rat(y[2], y[1]))

RLt(x, y) == RSub(x, y)[1] < 0

RLe(x, y) == RSub(x, y)[1] <= 0

RMin(x, y) == IF RLe(x, y) THEN x ELSE y

\* Python None where a number is expected: no rational has denominator 0
None == <<0, 0>>

\* Python None where a datetime is expected
NoTime == -1

\* a window of bars that holds no bar (the exchange answered [])
EmptyWindow == <<-1, 0>>

----------------------------------------------------------------------------
(* DailyCircuitBreaker *)

DailyCircuitBreaker(max_daily_loss_percent) ==
    [max_daily_loss_percent |-> max_daily_loss_percent,
     daily_start_balance |-> None,
     current_balance |-> None,
     is_paused |-> FALSE,
     pause_until |-> NoTime,
     consecutive_losses |-> 0]

start_day(cb, bal) ==
    [cb EXCEPT !.daily_start_balance = bal,
               !.current_balance = bal,
               !.is_paused = FALSE,
               !.pause_until = NoTime]

\* tomorrow.replace(hour=0, minute=0, second=0, microsecond=0)
NextMidnight(t) == ((t \div DayLen) + 1) * DayLen

\* Python truthiness of a balance: None and 0 are falsy
Truthy(x) == x # None /\ x # Num(0)

daily_loss(cb) ==
    RMul(RDiv(RSub(cb.daily_start_balance, cb.current_balance),
              cb.daily_start_balance), Num(100))

\* the lazy resume starting a new day from the current balance
ResumeIfDue_NewDay(cb, t) ==
    IF cb.pause_until # NoTime /\ t >= cb.pause_until
    THEN [cb EXCEPT !.is_paused = FALSE,
                    !.pause_until = NoTime,
                    !.consecutive_losses = 0,
                    !.daily_start_balance = cb.current_balance]
    ELSE cb

\* The first statement of check_can_trade: the lazy resume
ResumeIfDue(cb, t) ==
    IF cb.pause_until # NoTime /\ t >= cb.pause_until
    THEN [cb EXCEPT !.is_paused = FALSE,
                    !.pause_until = NoTime,
                    !.consecutive_losses = 0]
    ELSE cb

\* check_can_trade with the limit tested by > instead of >=
check_can_trade_Strict(cb, t) ==
    IF ResumeIfDue(cb, t).is_paused
    THEN [cb |-> ResumeIfDue(cb, t), can_trade |-> FALSE, message |-> "pause"]
    ELSE IF Truthy(cb.daily_start_balance)
            /\ RLt(Num(cb.max_daily_loss_percent), daily_loss(cb))
         THEN [cb |-> [ResumeIfDue(cb, t) EXCEPT !.pause_until = NextMidnight(t),
                                                !.is_paused = TRUE],
               can_trade |-> FALSE, message |-> "daily_loss"]
         ELSE [cb |-> ResumeIfDue(cb, t), can_trade |-> TRUE, message |-> "ok"]

\* Returns the new breaker state and the first component of the result
check_can_trade(cb, t) ==
    LET c1 == ResumeIfDue(cb, t)
    IN  IF c1.is_paused
        THEN [cb |-> c1, can_trade |-> FALSE, message |-> "pause"]
        ELSE IF Truthy(c1.daily_start_balance)
                /\ RLe(Num(c1.max_daily_loss_percent), daily_loss(c1))
             THEN [cb |-> [c1 EXCEPT !.pause_until = NextMidnight(t),
                                     !.is_paused = TRUE],
                   can_trade |-> FALSE, message |-> "daily_loss"]
             ELSE [cb |-> c1, can_trade |-> TRUE, message |-> "ok"]

update_balance(cb, new_balance, was_win) ==
    [cb EXCEPT !.current_balance = new_balance,
               !.consecutive_losses = IF was_win THEN 0 ELSE @ + 1]

get_status(cb) ==
    IF ~Truthy(cb.daily_start_balance)
    THEN [status |-> "not_started"]
    ELSE [status |-> IF cb.is_paused THEN "paused" ELSE "active",
          daily_start |-> cb.daily_start_balance,
          current |-> cb.current_balance,
          daily_pnl |-> RSub(cb.current_balance, cb.daily_start_balance),
          daily_pnl_percent |->
              RMul(RDiv(RSub(cb.current_balance, cb.daily_start_balance),
                        cb.daily_start_balance), Num(100)),
          consecutive_losses |-> cb.consecutive_losses,
          pause_until |-> cb.pause_until]

----------------------------------------------------------------------------
(* TradingBot: configuration and state *)

Symbols == {"BTCUSDT", "ETHUSDT"}

Pct(n) == Rat(n, 100)

\* load_config: the defaults, and the defaults updated by a user's config.json
DefaultConfig ==
    [initial_balance |-> Num(10000),
     max_daily_loss_percent |-> 10,
     position_size_percent |-> 2,
     stop_loss_percent |-> 2,
     take_profit_percent |-> 3,
     min_confidence |-> Pct(65),
     max_positions |-> 5,
     symbol |-> "BTCUSDT"]

\* user configurations: one whose stop-loss, take-profit and daily-loss limit
\* are met exactly by the prices below, one whose stop-loss and take-profit
\* coincide and which allows one position, one whose stop-loss and
\* take-profit the prices below never cross
Configs ==
    { [DefaultConfig EXCEPT !.max_daily_loss_percent = 20,
                            !.position_size_percent = 100,
                            !.stop_loss_percent = 20,
                            !.take_profit_percent = 25],
      [DefaultConfig EXCEPT !.position_size_percent = 50,
                            !.stop_loss_percent = 0,
                            !.take_profit_percent = 0,
                            !.max_positions = 1],
      [DefaultConfig EXCEPT !.position_size_percent = 50,
                            !.stop_loss_percent = 50,
                            !.take_profit_percent = 100],
      [DefaultConfig EXCEPT !.position_size_percent = 50,
                            !.stop_loss_percent = 50,
                            !.take_profit_percent = 100,
                            !.max_positions = 1] }

\* close prices of the last bar returned by get_market_data
Prices == {Num(80), Num(100), Num(125)}

\* results of strategy.analyze: decision, confidence, reasons
Signals ==
    { [decision |-> "HOLD", confidence |-> Pct(50), reasons |-> <<"no consensus">>],
      [decision |-> "BUY", confidence |-> Rat(32, 58), reasons |-> <<"buy">>],
      [decision |-> "BUY", confidence |-> Pct(65), reasons |-> <<"buy">>],
      [decision |-> "BUY", confidence |-> Rat(40, 58), reasons |-> <<"buy">>],
      [decision |-> "SELL", confidence |-> Rat(32, 58), reasons |-> <<"sell">>],
      [decision |-> "SELL", confidence |-> Rat(40, 58), reasons |-> <<"sell">>] }

\* The bot's mutable fields as one value
Bot ==
    [balance |-> balance,
     positions |-> positions,
     trades_history |-> trades_history,
     total_trades |-> total_trades,
     winning_trades |-> winning_trades,
     losing_trades |-> losing_trades,
     circuit_breaker |-> circuit_breaker]

\* TradingBot.__init__
NewBot(cfg) ==
    [balance |-> cfg.initial_balance,
     positions |-> <<>>,
     trades_history |-> <<>>,
     total_trades |-> 0,
     winning_trades |-> 0,
     losing_trades |-> 0,
     circuit_breaker |-> DailyCircuitBreaker(cfg.max_daily_loss_percent)]

----------------------------------------------------------------------------
(* self.positions is a dict: a sequence of <<symbol, position>> in insertion  *)
(* order, one entry per key                                                 *)

Keys(d) == [i \in 1..Len(d) |-> d[i][1]]

HasKey(d, k) == \E i \in 1..Len(d) : d[i][1] = k

Get(d, k) == d[CHOOSE i \in 1..Len(d) : d[i][1] = k][2]

\* d[k] = v: an existing key keeps its place
Put(d, k, v) ==
    IF HasKey(d, k)
    THEN [i \in 1..Len(d) |-> IF d[i][1] = k THEN <<k, v>> ELSE d[i]]
    ELSE Append(d, <<k, v>>)

\* del d[k]
Del(d, k) == SelectSeq(d, LAMBDA e : e[1] # k)

----------------------------------------------------------------------------
(* TradingBot operations: each returns the new bot and the returned value *)

\* calculate_position_size sizing on the initial balance
calculate_position_size_OfInitial(b, cfg, price) ==
    [amount |-> RDiv(RMul(cfg.initial_balance, Pct(cfg.position_size_percent)), price),
     value |-> RMul(cfg.initial_balance, Pct(cfg.position_size_percent))]

calculate_position_size(b, cfg, price) ==
    LET position_value == RMul(b.balance, Pct(cfg.position_size_percent))
    IN  [amount |-> RDiv(position_value, price), value |-> position_value]

open_position(b, cfg, symbol, signal, current_price, t) ==
    LET size == calculate_position_size(b, cfg, current_price)
        stop_loss == RMul(current_price, RSub(Num(1), Pct(cfg.stop_loss_percent)))
        take_profit == RMul(current_price, RAdd(Num(1), Pct(cfg.take_profit_percent)))
        pos == [amount |-> size.amount,
                entry_price |-> current_price,
                stop_loss |-> stop_loss,
                take_profit |-> take_profit,
                entry_time |-> t,
                signal |-> signal]
        trade == [type |-> "BUY",
                  symbol |-> symbol,
                  amount |-> size.amount,
                  price |-> current_price,
                  value |-> size.value,
                  time |-> t,
                  confidence |-> signal.confidence,
                  reasons |-> signal.reasons]
    IN  [bot |-> [b EXCEPT !.positions = Put(@, symbol, pos),
                           !.balance = RSub(@, size.value),
                           !.trades_history = Append(@, trade),
                           !.total_trades = @ + 1],
         ret |-> TRUE, raised |-> FALSE]

\* close_position crediting what the position had cost instead of what it sells for
Realize_CreditsEntry(b, symbol, pos, current_price, exit_value, pnl, pnl_percent, reason, t) ==
    [bot |-> [b EXCEPT
         !.balance = RAdd(@, RMul(pos.amount, pos.entry_price)),
         !.winning_trades = IF RLt(Num(0), pnl) THEN @ + 1 ELSE @,
         !.losing_trades = IF RLt(Num(0), pnl) THEN @ ELSE @ + 1,
         !.trades_history =
             Append(@, [type |-> "SELL",
                        symbol |-> symbol,
                        amount |-> pos.amount,
                        entry_price |-> pos.entry_price,
                        exit_price |-> current_price,
                        pnl |-> pnl,
                        pnl_percent |-> pnl_percent,
                        time |-> t,
                        reason |-> reason,
                        duration |-> t - pos.entry_time]),
         !.circuit_breaker =
             update_balance(@, RAdd(b.balance, RMul(pos.amount, pos.entry_price)),
                            RLt(Num(0), pnl)),
         !.positions = Del(@, symbol)],
     ret |-> TRUE, raised |-> FALSE]

\* Lines 290-336 of close_position, once pnl and pnl_percent are computed
Realize(b, symbol, pos, current_price, exit_value, pnl, pnl_percent, reason, t) ==
    [bot |-> [b EXCEPT
         !.balance = RAdd(@, exit_value),
         !.winning_trades = IF RLt(Num(0), pnl) THEN @ + 1 ELSE @,
         !.losing_trades = IF RLt(Num(0), pnl) THEN @ ELSE @ + 1,
         !.trades_history =
             Append(@, [type |-> "SELL",
                        symbol |-> symbol,
                        amount |-> pos.amount,
                        entry_price |-> pos.entry_price,
                        exit_price |-> current_price,
                        pnl |-> pnl,
                        pnl_percent |-> pnl_percent,
                        time |-> t,
                        reason |-> reason,
                        duration |-> t - pos.entry_time]),
         !.circuit_breaker =
             update_balance(@, RAdd(b.balance, exit_value), RLt(Num(0), pnl)),
         !.positions = Del(@, symbol)],
     ret |-> TRUE, raised |-> FALSE]

\* Lines 284-288: pnl / entry_value raises ZeroDivisionError when entry_value
\* is 0.0, before anything is changed
ComputePnl(b, symbol, pos, current_price, entry_value, exit_value, reason, t) ==
    IF entry_value = Num(0)
    THEN [bot |-> b, ret |-> FALSE, raised |-> TRUE]
    ELSE Realize(b, symbol, pos, current_price, exit_value,
                 RSub(exit_value, entry_value),
                 RMul(RDiv(RSub(exit_value, entry_value), entry_value), Num(100)),
                 reason, t)

close_position(b, cfg, symbol, current_price, reason, t) ==
    IF ~HasKey(b.positions, symbol)
    THEN [bot |-> b, ret |-> FALSE, raised |-> FALSE]
    ELSE ComputePnl(b, symbol, Get(b.positions, symbol), current_price,
                    RMul(Get(b.positions, symbol).amount,
                         Get(b.positions, symbol).entry_price),
                    RMul(Get(b.positions, symbol).amount, current_price),
                    reason, t)

\* One iteration of the loop of check_positions
CheckOne(b, cfg, symbol, pos, current_price, t) ==
    IF RLe(current_price, pos.stop_loss)
    THEN close_position(b, cfg, symbol, current_price, "Stop-loss atteint", t)
    ELSE IF RLe(pos.take_profit, current_price)
    THEN close_position(b, cfg, symbol, current_price, "Take-profit atteint", t)
    ELSE [bot |-> b, ret |-> FALSE, raised |-> FALSE]

\* The loop over list(self.positions.keys()); an exception ends it
RECURSIVE CheckEach(_, _, _, _, _)
CheckEach(r, cfg, syms, current_price, t) ==
    IF syms = <<>> \/ r.raised THEN r
    ELSE CheckEach(CheckOne(r.bot, cfg, Head(syms), Get(r.bot.positions, Head(syms)),
                            current_price, t),
                   cfg, Tail(syms), current_price, t)

check_positions(b, cfg, current_price, t) ==
    CheckEach([bot |-> b, ret |-> FALSE, raised |-> FALSE],
              cfg, Keys(b.positions), current_price, t)

\* The result of a cycle whose last call returned r
CycleResult(r, gate, step) ==
    [bot |-> r.bot, gate |-> gate, step |-> IF r.raised THEN "raised" ELSE step]

\* the decision of trade opening on BUY without the test of the open position
TradeDecision_NoHoldingTest(b, cfg, current_price, signal, t) ==
    IF signal.decision = "raised"
    THEN [bot |-> b, gate |-> "ok", step |-> "analysis_raised"]
    ELSE IF signal.decision = "BUY" /\ RLe(cfg.min_confidence, signal.confidence)
    THEN CycleResult(open_position(b, cfg, cfg.symbol, signal, current_price, t),
                     "ok", "open")
    ELSE IF signal.decision = "SELL" /\ HasKey(b.positions, cfg.symbol)
    THEN CycleResult(close_position(b, cfg, cfg.symbol, current_price,
                                    "Signal de vente", t),
                     "ok", "close")
    ELSE [bot |-> b, gate |-> "ok", step |-> "no_action"]

\* Lines 400-409: the decision of trade, once the gate and max_positions passed
TradeDecision(b, cfg, current_price, signal, t) ==
    IF signal.decision = "raised"
    THEN [bot |-> b, gate |-> "ok", step |-> "analysis_raised"]
    ELSE IF signal.decision = "BUY" /\ RLe(cfg.min_confidence, signal.confidence)
    THEN IF ~HasKey(b.positions, cfg.symbol)
         THEN CycleResult(open_position(b, cfg, cfg.symbol, signal, current_price, t),
                          "ok", "open")
         ELSE [bot |-> b, gate |-> "ok", step |-> "already_open"]
    ELSE IF signal.decision = "SELL" /\ HasKey(b.positions, cfg.symbol)
    THEN CycleResult(close_position(b, cfg, cfg.symbol, current_price,
                                    "Signal de vente", t),
                     "ok", "close")
    ELSE [bot |-> b, gate |-> "ok", step |-> "no_action"]

\* AfterGate going on to the decision of trade when the gate denies
AfterGate_TradesWhenDenied(b, chk, cfg, current_price, signal, t) ==
    IF Len(b.positions) >= cfg.max_positions
    THEN [bot |-> [b EXCEPT !.circuit_breaker = chk.cb],
          gate |-> IF chk.can_trade THEN "ok" ELSE "denied", step |-> "max_positions"]
    ELSE [TradeDecision([b EXCEPT !.circuit_breaker = chk.cb],
                        cfg, current_price, signal, t)
          EXCEPT !.gate = IF chk.can_trade THEN "ok" ELSE "denied"]

\* Lines 376-409: what follows the call of check_can_trade, chk being its result
AfterGate(b, chk, cfg, current_price, signal, t) ==
    IF ~chk.can_trade
    THEN [bot |-> [b EXCEPT !.circuit_breaker = chk.cb],
          gate |-> "denied", step |-> "gate"]
    ELSE IF Len(b.positions) >= cfg.max_positions
    THEN [bot |-> [b EXCEPT !.circuit_breaker = chk.cb],
          gate |-> "ok", step |-> "max_positions"]
    ELSE TradeDecision([b EXCEPT !.circuit_breaker = chk.cb],
                       cfg, current_price, signal, t)

\* Lines 373-409: the circuit-breaker gate and what follows it; an exception
\* raised by check_positions leaves the cycle before the gate
GateAndTrade(r, cfg, current_price, signal, t) ==
    IF r.raised
    THEN [bot |-> r.bot, gate |-> "not_reached", step |-> "raised"]
    ELSE AfterGate(r.bot, check_can_trade(r.bot.circuit_breaker, t),
                   cfg, current_price, signal, t)

\* run_trading_cycle calling check_can_trade before check_positions
run_trading_cycle_GateFirst(b, cfg, df, signal, t) ==
    IF df = None
    THEN [bot |-> b, gate |-> "not_reached", step |-> "no_data"]
    ELSE IF df = EmptyWindow
    THEN [bot |-> b, gate |-> "not_reached", step |-> "empty_window"]
    ELSE IF ~check_can_trade(b.circuit_breaker, t).can_trade
    THEN [bot |-> [b EXCEPT !.circuit_breaker =
                                check_can_trade(b.circuit_breaker, t).cb],
          gate |-> "denied", step |-> "gate"]
    ELSE IF check_positions(b, cfg, df, t).raised
    THEN [bot |-> check_positions(b, cfg, df, t).bot,
          gate |-> "not_reached", step |-> "raised"]
    ELSE AfterGate(check_positions(b, cfg, df, t).bot,
                   [cb |-> check_positions(b, cfg, df, t).bot.circuit_breaker,
                    can_trade |-> TRUE, message |-> "ok"],
                   cfg, df, signal, t)

\* the steps at which an exception leaves run_trading_cycle
CrashSteps == {"raised", "empty_window", "analysis_raised"}

\* run_trading_cycle calling check_positions after the decision of trade
run_trading_cycle_ExitsLast(b, cfg, df, signal, t) ==
    IF df = None
    THEN [bot |-> b, gate |-> "not_reached", step |-> "no_data"]
    ELSE IF df = EmptyWindow
    THEN [bot |-> b, gate |-> "not_reached", step |-> "empty_window"]
    ELSE IF AfterGate(b, check_can_trade(b.circuit_breaker, t), cfg, df, signal,
                      t).step \in CrashSteps
    THEN AfterGate(b, check_can_trade(b.circuit_breaker, t), cfg, df, signal, t)
    ELSE CycleResult(
             check_positions(AfterGate(b, check_can_trade(b.circuit_breaker, t),
                                       cfg, df, signal, t).bot, cfg, df, t),
             AfterGate(b, check_can_trade(b.circuit_breaker, t), cfg, df, signal,
                       t).gate,
             AfterGate(b, check_can_trade(b.circuit_breaker, t), cfg, df, signal,
                       t).step)

\* df is None when get_market_data failed, else the close of the last bar;
\* signal is what strategy.analyze(df) returns when it is reached
run_trading_cycle(b, cfg, df, signal, t) ==
    IF df = None
    THEN [bot |-> b, gate |-> "not_reached", step |-> "no_data"]
    ELSE IF df = EmptyWindow
    THEN [bot |-> b, gate |-> "not_reached", step |-> "empty_window"]
    ELSE GateAndTrade(check_positions(b, cfg, df, t), cfg, df, signal, t)

----------------------------------------------------------------------------
(* State changes *)

SetBot(b) ==
    /\ balance' = b.balance
    /\ positions' = b.positions
    /\ trades_history' = b.trades_history
    /\ total_trades' = b.total_trades
    /\ winning_trades' = b.winning_trades
    /\ losing_trades' = b.losing_trades
    /\ circuit_breaker' = b.circuit_breaker

botVars == <<balance, positions, trades_history, total_trades,
             winning_trades, losing_trades, circuit_breaker>>

NoOp == [op |-> "none"]

FusionIdle == [fn |-> "none"]

\* the state of a bot b without its circuit breaker
SetInit(b) ==
    /\ balance = b.balance
    /\ positions = b.positions
    /\ trades_history = b.trades_history
    /\ total_trades = b.total_trades
    /\ winning_trades = b.winning_trades
    /\ losing_trades = b.losing_trades

InitBot(cfgs, p) ==
    /\ config \in cfgs
    /\ SetInit(NewBot(config))
    /\ circuit_breaker = NewBot(config).circuit_breaker
    /\ now = 0
    /\ pc = p
    /\ last = NoOp
    /\ fusion = FusionIdle

\* What a cycle consumed and how it ended; analyze is called, and its signal
\* used, only in a cycle that passes the gate and the max_positions test
AnalyzeReached(r) == r.gate = "ok" /\ r.step # "max_positions"

NoSignal == [decision |-> "none", confidence |-> None, reasons |-> <<>>]

\* self.strategy.analyze(df) raising, as the strategy modules do on a window
\* of fewer than 2 bars
AnalysisRaised == [decision |-> "raised", confidence |-> None, reasons |-> <<>>]

CycleRecord(df, signal, r) ==
    [op |-> "run_trading_cycle", df |-> df,
     signal |-> IF AnalyzeReached(r) THEN signal ELSE NoSignal,
     gate |-> r.gate, step |-> r.step]

----------------------------------------------------------------------------
(* The live loop: TradingBot.run *)

Init == InitBot(Configs, "start")

\* run(): start_day, then the loop
RunStart ==
    /\ pc = "start"
    /\ circuit_breaker' = start_day(circuit_breaker, balance)
    /\ pc' = "cycle"
    /\ last' = [op |-> "start_day"]
    /\ UNCHANGED <<config, balance, positions, trades_history, total_trades,
                   winning_trades, losing_trades, now, fusion>>

RunTradingCycle ==
    /\ pc = "cycle"
    /\ \E df \in Prices \cup {None, EmptyWindow},
          signal \in Signals \cup {AnalysisRaised} :
         LET r == run_trading_cycle(Bot, config, df, signal, now)
         IN  /\ Len(r.bot.trades_history) <= MaxTrades
             /\ SetBot(r.bot)
             /\ last' = CycleRecord(df, signal, r)
             /\ pc' = IF r.step \in CrashSteps THEN "crashed" ELSE "sleep"
    /\ UNCHANGED <<config, now, fusion>>

\* time.sleep(wait_seconds)
Sleep ==
    /\ pc = "sleep"
    /\ now < MaxTime
    /\ now' = now + 1
    /\ pc' = "cycle"
    /\ last' = [op |-> "sleep"]
    /\ UNCHANGED <<config, botVars, fusion>>

\* KeyboardInterrupt during the wait
Interrupt ==
    /\ pc = "sleep"
    /\ pc' = "stopped"
    /\ last' = [op |-> "KeyboardInterrupt"]
    /\ UNCHANGED <<config, botVars, now, fusion>>

\* the assignments of open_position (lines 236, 246, 259, 260) and of
\* close_position (lines 291, 294-299, 314, 317, 331), in their order
OpenOrder ==
    <<{"positions"}, {"balance"}, {"trades_history"}, {"total_trades"}>>

CloseOrder ==
    <<{"balance"}, {"winning_trades", "losing_trades"}, {"trades_history"},
      {"circuit_breaker"}, {"positions"}>>

\* the bot when an operation taking b to full is left after k of its assignments
Interrupted(b, full, order, k) ==
    [f \in DOMAIN b |->
        IF \E i \in 1..k : f \in order[i] THEN full[f] ELSE b[f]]

HoldSignal == [decision |-> "HOLD", confidence |-> Pct(50), reasons |-> <<"no consensus">>]

\* KeyboardInterrupt delivered while the cycle is inside check_positions'
\* close_position
InterruptInExit ==
    /\ pc = "cycle"
    /\ \E df \in Prices, k \in 1..(Len(CloseOrder) - 1) :
         LET chk == check_positions(Bot, config, df, now)
         IN  /\ ~chk.raised
             /\ Len(chk.bot.trades_history) > Len(trades_history)
             /\ Len(chk.bot.trades_history) <= MaxTrades
             /\ SetBot(Interrupted(Bot, chk.bot, CloseOrder, k))
             /\ last' = [op |-> "KeyboardInterrupt", during |-> "check_positions",
                         applied |-> k]
    /\ pc' = "stopped"
    /\ UNCHANGED <<config, now, fusion>>

\* KeyboardInterrupt delivered while the cycle is inside the open_position or
\* the close_position of its decision of trade
InterruptInTrade ==
    /\ pc = "cycle"
    /\ \E df \in Prices, signal \in Signals, k \in 1..(Len(CloseOrder) - 1) :
         LET r == run_trading_cycle(Bot, config, df, signal, now)
             pre == run_trading_cycle(Bot, config, df, HoldSignal, now)
         IN  /\ r.step \in {"open", "close"}
             /\ r.step = "open" => k < Len(OpenOrder)
             /\ Len(r.bot.trades_history) <= MaxTrades
             /\ SetBot(Interrupted(pre.bot, r.bot,
                                   IF r.step = "open" THEN OpenOrder ELSE CloseOrder, k))
             /\ last' = [op |-> "KeyboardInterrupt", during |-> r.step, applied |-> k]
    /\ pc' = "stopped"
    /\ UNCHANGED <<config, now, fusion>>

Next ==
    \/ RunStart
    \/ RunTradingCycle
    \/ Sleep
    \/ Interrupt
    \/ InterruptInExit
    \/ InterruptInTrade

Spec == Init /\ [][Next]_vars

----------------------------------------------------------------------------
(* The public operations of TradingBot called directly, in any order *)

\* the configurations of the direct calls: those whose stop-loss and take-profit
\* differ
ApiConfigs == {c \in Configs : c.stop_loss_percent > 0}

\* the bot once run() has called start_day(self.balance)
InitApi ==
    /\ config \in ApiConfigs
    /\ SetInit(NewBot(config))
    /\ circuit_breaker =
           start_day(DailyCircuitBreaker(config.max_daily_loss_percent), balance)
    /\ now = 0
    /\ pc = "api"
    /\ last = NoOp
    /\ fusion = FusionIdle

\* the signals of the direct calls: a BUY and a SELL above the threshold
ApiSignals == {sg \in Signals : sg.confidence = Rat(40, 58)}

BuySignals == {sg \in ApiSignals : sg.decision = "BUY"}

ApiOpenPosition ==
    /\ pc = "api"
    /\ \E symbol \in Symbols, signal \in BuySignals, current_price \in Prices :
         LET r == open_position(Bot, config, symbol, signal, current_price, now)
         IN  /\ Len(r.bot.trades_history) <= MaxTrades
             /\ SetBot(r.bot)
             /\ last' = [op |-> "open_position", symbol |-> symbol,
                         price |-> current_price, ret |-> r.ret]
    /\ UNCHANGED <<config, now, pc, fusion>>

ApiClosePosition ==
    /\ pc = "api"
    /\ \E symbol \in Symbols, current_price \in Prices :
         LET r == close_position(Bot, config, symbol, current_price, "manual", now)
         IN  /\ Len(r.bot.trades_history) <= MaxTrades
             /\ SetBot(r.bot)
             /\ last' = [op |-> "close_position", symbol |-> symbol,
                         price |-> current_price, ret |-> r.ret,
                         raised |-> r.raised]
    /\ UNCHANGED <<config, now, pc, fusion>>

ApiRunTradingCycle ==
    /\ pc = "api"
    /\ \E df \in Prices, signal \in ApiSignals :
         LET r == run_trading_cycle(Bot, config, df, signal, now)
         IN  /\ Len(r.bot.trades_history) <= MaxTrades
             /\ SetBot(r.bot)
             /\ last' = CycleRecord(df, signal, r)
    /\ UNCHANGED <<config, now, pc, fusion>>

NextApi ==
    ApiOpenPosition \/ ApiClosePosition \/ ApiRunTradingCycle

SpecApi == InitApi /\ [][NextApi]_vars

----------------------------------------------------------------------------
(* A DailyCircuitBreaker called directly, in any order *)

LossLimits == {5, 10}

\* balances handed to start_day and update_balance
DayBalances == {Num(0), Num(8900), Num(9000), Num(9001), Num(10000)}

InitBreaker ==
    /\ \E m \in LossLimits :
         /\ config = [DefaultConfig EXCEPT !.max_daily_loss_percent = m]
         /\ circuit_breaker = DailyCircuitBreaker(m)
    /\ balance = config.initial_balance
    /\ positions = <<>>
    /\ trades_history = <<>>
    /\ total_trades = 0
    /\ winning_trades = 0
    /\ losing_trades = 0
    /\ now = 0
    /\ pc = "breaker"
    /\ last = NoOp
    /\ fusion = FusionIdle

breakerFrame == <<config, balance, positions, trades_history, total_trades,
                  winning_trades, losing_trades, now, pc, fusion>>

StartDay ==
    /\ pc = "breaker"
    /\ \E bal \in DayBalances :
         /\ circuit_breaker' = start_day(circuit_breaker, bal)
         /\ last' = [op |-> "start_day",
                     balance |-> bal]
    /\ UNCHANGED breakerFrame

CheckCanTrade ==
    /\ pc = "breaker"
    /\ LET r == check_can_trade(circuit_breaker, now)
       IN  /\ circuit_breaker' = r.cb
           /\ last' = [op |-> "check_can_trade", can_trade |-> r.can_trade,
                       message |-> r.message]
    /\ UNCHANGED breakerFrame

UpdateBalance ==
    /\ pc = "breaker"
    /\ \E bal \in DayBalances, was_win \in BOOLEAN :
         /\ was_win \/ circuit_breaker.consecutive_losses < MaxLosses
         /\ circuit_breaker' = update_balance(circuit_breaker, bal, was_win)
         /\ last' = [op |-> "update_balance",
                     balance |-> bal, was_win |-> was_win]
    /\ UNCHANGED breakerFrame

GetStatus ==
    /\ pc = "breaker"
    /\ circuit_breaker.daily_start_balance # None
          => circuit_breaker.current_balance # None
    /\ last' = [op |-> "get_status",
                status |-> get_status(circuit_breaker)]
    /\ UNCHANGED <<circuit_breaker, breakerFrame>>

Tick ==
    /\ pc = "breaker"
    /\ now < MaxTime
    /\ now' = now + 1
    /\ last' = [op |-> "tick"]
    /\ UNCHANGED <<config, botVars, pc, fusion>>

NextBreaker == StartDay \/ CheckCanTrade \/ UpdateBalance \/ GetStatus \/ Tick

SpecBreaker == InitBreaker /\ [][NextBreaker]_vars

----------------------------------------------------------------------------
(* ProvenStrategies.analyze: the weighted vote over the five strategy signals *)

Decisions == {"BUY", "SELL", "HOLD"}

\* the keys of the signals dict, in insertion order
StrategyNames ==
    <<"bollinger_mean_reversion", "rsi_divergence", "macd_histogram",
      "vwap", "ema_crossover">>

weights ==
    [bollinger_mean_reversion |-> Rat(12, 10),
     rsi_divergence |-> Rat(15, 10),
     macd_histogram |-> Rat(10, 10),
     vwap |-> Rat(13, 10),
     ema_crossover |-> Rat(8, 10)]

Signal(decision, confidence, reason) ==
    [decision |-> decision, confidence |-> confidence, reason |-> reason]

\* the Signal values each strategy module can return
StrategySignals ==
    [bollinger_mean_reversion |->
         {Signal("BUY", Pct(75), "bb oversold"), Signal("SELL", Pct(75), "bb overbought"),
          Signal("HOLD", Pct(50), "bb normal")},
     rsi_divergence |->
         {Signal("BUY", Pct(85), "rsi bullish divergence"),
          Signal("SELL", Pct(85), "rsi bearish divergence"),
          Signal("BUY", Pct(65), "rsi oversold"), Signal("SELL", Pct(65), "rsi overbought"),
          Signal("HOLD", Pct(50), "rsi none")},
     macd_histogram |->
         {Signal("BUY", Pct(70), "macd bullish"), Signal("SELL", Pct(70), "macd bearish"),
          Signal("HOLD", Pct(50), "macd none")},
     vwap |->
         {Signal("BUY", Pct(80), "vwap below"), Signal("SELL", Pct(80), "vwap above"),
          Signal("HOLD", Pct(50), "vwap near")},
     ema_crossover |->
         {Signal("BUY", Pct(65), "ema golden cross"), Signal("SELL", Pct(65), "ema death cross"),
          Signal("BUY", Pct(55), "ema bullish trend"), Signal("SELL", Pct(55), "ema bearish trend"),
          Signal("HOLD", Pct(50), "ema none")}]

\* sum(weights[k] for k, v in signals.items() if v.decision == side)
RECURSIVE Score(_, _, _)
Score(names, signals, side) ==
    IF names = <<>> THEN Num(0)
    ELSE RAdd(IF signals[Head(names)].decision = side
              THEN weights[Head(names)] ELSE Num(0),
              Score(Tail(names), signals, side))

\* sum(weights.values())
RECURSIVE TotalWeight(_)
TotalWeight(names) ==
    IF names = <<>> THEN Num(0)
    ELSE RAdd(weights[Head(names)], TotalWeight(Tail(names)))

\* [v.reason for k, v in signals.items() if v.decision == side]
RECURSIVE Reasons(_, _, _)
Reasons(names, signals, side) ==
    IF names = <<>> THEN <<>>
    ELSE (IF signals[Head(names)].decision = side
          THEN <<signals[Head(names)].reason>> ELSE <<>>)
         \o Reasons(Tail(names), signals, side)

\* Consensus without the test of a majority of the total weight
Consensus_NoMajority(signals, buy_score, sell_score, total_weight) ==
    IF RLt(sell_score, buy_score)
    THEN [decision |-> "BUY",
          confidence |-> RDiv(buy_score, total_weight),
          reasons |-> Reasons(StrategyNames, signals, "BUY"),
          signals |-> signals, strategy |-> "PROVEN_PROFESSIONAL"]
    ELSE IF RLt(buy_score, sell_score)
    THEN [decision |-> "SELL",
          confidence |-> RDiv(sell_score, total_weight),
          reasons |-> Reasons(StrategyNames, signals, "SELL"),
          signals |-> signals, strategy |-> "PROVEN_PROFESSIONAL"]
    ELSE [decision |-> "HOLD",
          confidence |-> Pct(50),
          reasons |-> <<"Pas de consensus clair entre les strategies">>,
          signals |-> signals, strategy |-> "PROVEN_PROFESSIONAL"]

\* Consensus whose confidence is the winner's share of the votes cast
Consensus_ShareOfCast(signals, buy_score, sell_score, total_weight) ==
    IF RLt(sell_score, buy_score) /\ RLt(Pct(50), RDiv(buy_score, total_weight))
    THEN [decision |-> "BUY",
          confidence |-> RDiv(buy_score, RAdd(buy_score, sell_score)),
          reasons |-> Reasons(StrategyNames, signals, "BUY"),
          signals |-> signals, strategy |-> "PROVEN_PROFESSIONAL"]
    ELSE IF RLt(buy_score, sell_score) /\ RLt(Pct(50), RDiv(sell_score, total_weight))
    THEN [decision |-> "SELL",
          confidence |-> RDiv(sell_score, RAdd(buy_score, sell_score)),
          reasons |-> Reasons(StrategyNames, signals, "SELL"),
          signals |-> signals, strategy |-> "PROVEN_PROFESSIONAL"]
    ELSE [decision |-> "HOLD",
          confidence |-> Pct(50),
          reasons |-> <<"Pas de consensus clair entre les strategies">>,
          signals |-> signals, strategy |-> "PROVEN_PROFESSIONAL"]

\* Lines 84-115: the final decision; the metrics, copied from the indicators
\* of the last bar, are left out
Consensus(signals, buy_score, sell_score, total_weight) ==
    IF RLt(sell_score, buy_score) /\ RLt(Pct(50), RDiv(buy_score, total_weight))
    THEN [decision |-> "BUY",
          confidence |-> RDiv(buy_score, total_weight),
          reasons |-> Reasons(StrategyNames, signals, "BUY"),
          signals |-> signals, strategy |-> "PROVEN_PROFESSIONAL"]
    ELSE IF RLt(buy_score, sell_score) /\ RLt(Pct(50), RDiv(sell_score, total_weight))
    THEN [decision |-> "SELL",
          confidence |-> RDiv(sell_score, total_weight),
          reasons |-> Reasons(StrategyNames, signals, "SELL"),
          signals |-> signals, strategy |-> "PROVEN_PROFESSIONAL"]
    ELSE [decision |-> "HOLD",
          confidence |-> Pct(50),
          reasons |-> <<"Pas de consensus clair entre les strategies">>,
          signals |-> signals, strategy |-> "PROVEN_PROFESSIONAL"]

\* signals are the results of the five strategy modules on the window
analyze(signals) ==
    Consensus(signals,
              Score(StrategyNames, signals, "BUY"),
              Score(StrategyNames, signals, "SELL"),
              TotalWeight(StrategyNames))

----------------------------------------------------------------------------
(* AISignalFilter._filter_signal (Policy A), prob_good = predict_proba[0][1] *)

Filtered(classic_signal, decision, confidence, reasons, tag, prob_good) ==
    [decision |-> decision,
     confidence |-> confidence,
     reasons |-> reasons,
     signals |-> classic_signal.signals,
     strategy |-> "AI_FILTERED_PROVEN",
     ai_filter |-> tag,
     ai_confidence |-> prob_good]

\* FilterDirectional with the thresholds tested by >= instead of >
FilterDirectional_Inclusive(classic_signal, prob_good) ==
    IF RLe(Pct(70), prob_good)
    THEN Filtered(classic_signal, classic_signal.decision,
                  RMin(RMul(classic_signal.confidence, Rat(13, 10)), Pct(95)),
                  classic_signal.reasons, "CONFIRMED_STRONG", prob_good)
    ELSE IF RLe(Pct(55), prob_good)
    THEN Filtered(classic_signal, classic_signal.decision,
                  RMul(classic_signal.confidence, Rat(11, 10)),
                  classic_signal.reasons, "CONFIRMED", prob_good)
    ELSE Filtered(classic_signal, "HOLD", Pct(50),
                  Append(classic_signal.reasons,
                         "IA: Signal filtre (probabilite faible)"),
                  "REJECTED", prob_good)

\* Lines 129-156 and 159-186: the two branches are the same but for the decision
FilterDirectional(classic_signal, prob_good) ==
    IF RLt(Pct(70), prob_good)
    THEN Filtered(classic_signal, classic_signal.decision,
                  RMin(RMul(classic_signal.confidence, Rat(13, 10)), Pct(95)),
                  classic_signal.reasons, "CONFIRMED_STRONG", prob_good)
    ELSE IF RLt(Pct(55), prob_good)
    THEN Filtered(classic_signal, classic_signal.decision,
                  RMul(classic_signal.confidence, Rat(11, 10)),
                  classic_signal.reasons, "CONFIRMED", prob_good)
    ELSE Filtered(classic_signal, "HOLD", Pct(50),
                  Append(classic_signal.reasons,
                         "IA: Signal filtre (probabilite faible)"),
                  "REJECTED", prob_good)

_filter_signal(classic_signal, prob_good) ==
    IF classic_signal.decision \in {"BUY", "SELL"}
    THEN FilterDirectional(classic_signal, prob_good)
    ELSE Filtered(classic_signal, classic_signal.decision, classic_signal.confidence,
                  classic_signal.reasons, "NEUTRAL", prob_good)

----------------------------------------------------------------------------
(* AIStrategy._combine_signals (Policy B) *)

\* _combine_signals with the classifier's confidence tested by >= 0.80
_combine_signals_Inclusive(classic, ai) ==
    IF classic.decision = ai.decision
    THEN [decision |-> classic.decision,
          confidence |-> RMin(RAdd(classic.confidence, Pct(15)), Pct(95)),
          signals |-> classic.signals,
          ai_agreement |-> TRUE,
          ai_confidence |-> ai.confidence,
          strategy |-> "AI_ENHANCED"]
    ELSE IF RLe(Pct(80), ai.confidence) /\ RLt(classic.confidence, Pct(65))
    THEN [decision |-> ai.decision,
          confidence |-> Pct(70),
          signals |-> classic.signals,
          ai_agreement |-> FALSE,
          ai_override |-> TRUE,
          ai_confidence |-> ai.confidence,
          strategy |-> "AI_ENHANCED"]
    ELSE [decision |-> "HOLD",
          confidence |-> Pct(50),
          signals |-> classic.signals,
          ai_agreement |-> FALSE,
          ai_confidence |-> ai.confidence,
          strategy |-> "AI_ENHANCED"]

_combine_signals(classic, ai) ==
    IF classic.decision = ai.decision
    THEN [decision |-> classic.decision,
          confidence |-> RMin(RAdd(classic.confidence, Pct(15)), Pct(95)),
          signals |-> classic.signals,
          ai_agreement |-> TRUE,
          ai_confidence |-> ai.confidence,
          strategy |-> "AI_ENHANCED"]
    ELSE IF RLt(Pct(80), ai.confidence) /\ RLt(classic.confidence, Pct(65))
    THEN [decision |-> ai.decision,
          confidence |-> Pct(70),
          signals |-> classic.signals,
          ai_agreement |-> FALSE,
          ai_override |-> TRUE,
          ai_confidence |-> ai.confidence,
          strategy |-> "AI_ENHANCED"]
    ELSE [decision |-> "HOLD",
          confidence |-> Pct(50),
          signals |-> classic.signals,
          ai_agreement |-> FALSE,
          ai_confidence |-> ai.confidence,
          strategy |-> "AI_ENHANCED"]

----------------------------------------------------------------------------
(* The decision functions applied to drawn inputs *)

\* every combination of results of the five strategy modules
SignalInputs ==
    {sg \in [DOMAIN StrategySignals -> UNION {StrategySignals[k] : k \in DOMAIN StrategySignals}] :
        \A k \in DOMAIN StrategySignals : sg[k] \in StrategySignals[k]}

\* classifier scores, around the thresholds 0.55 and 0.70
ProbGoods == {Pct(0), Pct(55), Pct(56), Pct(60), Pct(70), Pct(71), Pct(75), Pct(100)}

\* consensus results handed directly to a fusion policy
ConsensusInputs ==
    {[decision |-> d, confidence |-> c, reasons |-> <<"r">>, signals |-> <<>>,
      strategy |-> "CLASSIC"] :
        d \in Decisions,
        c \in {Pct(50), Pct(60), Pct(64), Pct(65), Pct(80), Pct(81), Pct(100)}}

\* results of _ai_predict, around the threshold 0.80
AIPredictions ==
    {[decision |-> d, confidence |-> c] :
        d \in Decisions, c \in {Pct(34), Pct(80), Pct(81), Pct(100)}}

InitFusion ==
    /\ config = DefaultConfig
    /\ SetInit(NewBot(config))
    /\ circuit_breaker = NewBot(config).circuit_breaker
    /\ now = 0
    /\ pc = "fusion"
    /\ last = NoOp
    /\ \/ \E sg \in SignalInputs : fusion = [fn |-> "signals", signals |-> sg]
       \/ \E c \in ConsensusInputs : fusion = [fn |-> "consensus", result |-> c]

fusionFrame == <<config, botVars, now, pc, last>>

Analyze ==
    /\ fusion.fn = "signals"
    /\ fusion' = [fn |-> "analyze", signals |-> fusion.signals,
                  result |-> analyze(fusion.signals)]
    /\ UNCHANGED fusionFrame

FilterSignal ==
    /\ fusion.fn \in {"analyze", "consensus"}
    /\ \E prob_good \in ProbGoods :
         fusion' = [fn |-> "_filter_signal", classic |-> fusion.result,
                    prob_good |-> prob_good,
                    result |-> _filter_signal(fusion.result, prob_good)]
    /\ UNCHANGED fusionFrame

CombineSignals ==
    /\ fusion.fn = "consensus"
    /\ \E ai \in AIPredictions :
         fusion' = [fn |-> "_combine_signals", classic |-> fusion.result,
                    ai |-> ai,
                    result |-> _combine_signals(fusion.result, ai)]
    /\ UNCHANGED fusionFrame

\* what filtering meets: an exception raised by _prepare_features,
\* predict_proba or the ONNX session, or the value the model returns
Raised == [raised |-> TRUE]

Returned(value) == [raised |-> FALSE, value |-> value]

\* AISignalFilter._load_model / AIStrategy._load_model: the strategy object
\* after construction
_load_model(available, exists, load_ok) ==
    [ai_enabled |-> available /\ exists /\ load_ok]

\* AISignalFilter.analyze with the AI disabling itself on an exception
AISignalFilter_analyze_Disabling(self, classic_signal, outcome) ==
    IF self.ai_enabled /\ ~outcome.raised
    THEN [self |-> self, result |-> _filter_signal(classic_signal, outcome.value)]
    ELSE [self |-> [self EXCEPT !.ai_enabled = FALSE], result |-> classic_signal]

\* AISignalFilter.analyze, classic_signal being what proven_strategies.analyze
\* returned and outcome the classifier's probability or an exception
AISignalFilter_analyze(self, classic_signal, outcome) ==
    IF self.ai_enabled
    THEN IF outcome.raised
         THEN [self |-> self, result |-> classic_signal]
         ELSE [self |-> self, result |-> _filter_signal(classic_signal, outcome.value)]
    ELSE [self |-> self, result |-> classic_signal]

\* AIStrategy.analyze, outcome being what _ai_predict returned or an exception
AIStrategy_analyze(self, classic_result, outcome) ==
    IF self.ai_enabled
    THEN IF outcome.raised
         THEN [self |-> self, result |-> classic_result]
         ELSE [self |-> self,
               result |-> [_combine_signals(classic_result, outcome.value)
                           EXCEPT !.strategy = "AI_ENHANCED"]]
    ELSE [self |-> self, result |-> classic_result]

\* construction of a strategy object of either policy, next to the consensus
\* of the coming cycle
LoadModel ==
    /\ fusion.fn \in {"analyze", "consensus"}
    /\ \E available, exists, load_ok \in BOOLEAN, policy \in {"A", "B"} :
         /\ policy = "B" => fusion.fn = "consensus"
         /\ fusion' = [fn |-> "_load_model", policy |-> policy,
                       self |-> _load_model(available, exists, load_ok),
                       classic |-> fusion.result, prev |-> "none"]
    /\ UNCHANGED fusionFrame

FilterAnalyze ==
    /\ fusion.fn \in {"_load_model", "AISignalFilter.analyze"}
    /\ fusion.policy = "A"
    /\ \E outcome \in {Returned(p) : p \in ProbGoods} \cup {Raised} :
         LET r == AISignalFilter_analyze(fusion.self, fusion.classic, outcome)
         IN  fusion' = [fn |-> "AISignalFilter.analyze", policy |-> "A",
                        self |-> r.self, classic |-> fusion.classic,
                        prev |-> IF fusion.fn = "_load_model" THEN "none"
                                 ELSE IF fusion.outcome.raised THEN "raised"
                                 ELSE "ok",
                        outcome |-> outcome, result |-> r.result]
    /\ UNCHANGED fusionFrame

EnhanceAnalyze ==
    /\ fusion.fn \in {"_load_model", "AIStrategy.analyze"}
    /\ fusion.policy = "B"
    /\ \E outcome \in {Returned(a) : a \in AIPredictions} \cup {Raised} :
         LET r == AIStrategy_analyze(fusion.self, fusion.classic, outcome)
         IN  fusion' = [fn |-> "AIStrategy.analyze", policy |-> "B",
                        self |-> r.self, classic |-> fusion.classic,
                        prev |-> IF fusion.fn = "_load_model" THEN "none"
                                 ELSE IF fusion.outcome.raised THEN "raised"
                                 ELSE "ok",
                        outcome |-> outcome, result |-> r.result]
    /\ UNCHANGED fusionFrame

NextFusion ==
    \/ Analyze
    \/ FilterSignal
    \/ CombineSignals
    \/ LoadModel
    \/ FilterAnalyze
    \/ EnhanceAnalyze

SpecFusion == InitFusion /\ [][NextFusion]_vars

----------------------------------------------------------------------------
(* ProvenStrategies on a window of bars. A window is its number of bars and
   what the indicators of its last bars amount to, in the classes that the
   strategy modules tell apart; an indicator that lacks history is NaN, and
   every comparison with NaN is false. *)

WindowLengths == {0, 1, 2, 3, 10, 20, 24, 35, 50}

\* ta.momentum.RSIIndicator(window=14) on the last bar
RsiValues(n) ==
    IF n >= 14 THEN {"lt30", "30to35", "35to40", "40to60", "60to65", "65to70", "gt70"}
    ELSE {"nan"}

\* (close - bb_lower) / (bb_upper - bb_lower), BollingerBands(window=20)
BbPositions(n) == IF n >= 20 THEN {"lt10", "10to90", "gt90"} ELSE {"nan"}

\* lows descending with RSI ascending over the bars -1, -5, -10 (bullish),
\* highs ascending with RSI descending (bearish)
Divergences(n) == IF n >= 24 THEN {"bullish", "bearish", "none"} ELSE {"none"}

\* the sign change of macd_histogram between the last two bars, and whether
\* its absolute value grew
MacdCrossings(n) ==
    IF n >= 35 THEN {"bull_expanding", "bull", "bear_expanding", "bear", "none"}
    ELSE {"nan"}

\* (close - vwap) / vwap * 100 against -0.5 and 0.5
VwapDistances(n) == IF n >= 1 THEN {"below", "near", "above"} ELSE {"nan"}

\* volume > volume_sma * 1.2, volume_sma being rolling(window=20).mean()
HighVolumes(n) == IF n >= 20 THEN BOOLEAN ELSE {FALSE}

\* ema_12 against ema_26 on the last two bars
EmaStates(n) == IF n >= 27 THEN {"golden", "death", "above", "below"} ELSE {"nan"}

\* close against ema_50
Ema50Sides(n) == IF n >= 50 THEN {"above", "below"} ELSE {"nan"}

BaseColumns == {"open", "high", "low", "close", "volume"}

IndicatorColumns ==
    {"rsi", "macd", "macd_signal", "macd_histogram", "bb_upper", "bb_lower",
     "bb_mid", "ema_12", "ema_26", "ema_50", "vwap", "atr", "volume_sma"}

Windows ==
    UNION {{[n |-> n, columns |-> BaseColumns, rsi |-> rsi, bb |-> bb,
             divergence |-> dv, macd |-> mc, vwap |-> vw, high_volume |-> hv,
             ema |-> em, ema_50 |-> e50] :
               rsi \in RsiValues(n), bb \in BbPositions(n), dv \in Divergences(n),
               mc \in MacdCrossings(n), vw \in VwapDistances(n),
               hv \in HighVolumes(n), em \in EmaStates(n), e50 \in Ema50Sides(n)} :
           n \in WindowLengths}

\* df.iloc[-k] on a window of fewer than k bars
IndexError == [raised |-> TRUE, error |-> "IndexError"]

Return(signal) == [raised |-> FALSE, signal |-> signal]

\* df = df.copy(), then the indicator columns are added to the copy
_calculate_indicators(df) == [df EXCEPT !.columns = @ \cup IndicatorColumns]

_bollinger_mean_reversion(df) ==
    IF df.n < 2 THEN IndexError
    ELSE IF df.bb = "lt10" /\ df.rsi \in {"lt30", "30to35"}
    THEN Return(Signal("BUY", Pct(75), "bb oversold"))
    ELSE IF df.bb = "gt90" /\ df.rsi \in {"65to70", "gt70"}
    THEN Return(Signal("SELL", Pct(75), "bb overbought"))
    ELSE Return(Signal("HOLD", Pct(50), "bb normal"))

_rsi_divergence(df) ==
    IF df.n < 10 THEN Return(Signal("HOLD", Pct(50), "rsi none"))
    ELSE IF df.divergence = "bullish" /\ df.rsi \in {"lt30", "30to35", "35to40"}
    THEN Return(Signal("BUY", Pct(85), "rsi bullish divergence"))
    ELSE IF df.divergence = "bearish" /\ df.rsi \in {"60to65", "65to70", "gt70"}
    THEN Return(Signal("SELL", Pct(85), "rsi bearish divergence"))
    ELSE IF df.rsi = "lt30"
    THEN Return(Signal("BUY", Pct(65), "rsi oversold"))
    ELSE IF df.rsi = "gt70"
    THEN Return(Signal("SELL", Pct(65), "rsi overbought"))
    ELSE Return(Signal("HOLD", Pct(50), "rsi none"))

_macd_histogram(df) ==
    IF df.n < 3 THEN Return(Signal("HOLD", Pct(50), "macd none"))
    ELSE IF df.macd = "bull_expanding"
    THEN Return(Signal("BUY", Pct(70), "macd bullish"))
    ELSE IF df.macd = "bear_expanding"
    THEN Return(Signal("SELL", Pct(70), "macd bearish"))
    ELSE Return(Signal("HOLD", Pct(50), "macd none"))

_vwap_strategy(df) ==
    IF df.n < 1 THEN IndexError
    ELSE IF df.vwap = "below" /\ df.high_volume
    THEN Return(Signal("BUY", Pct(80), "vwap below"))
    ELSE IF df.vwap = "above" /\ df.high_volume
    THEN Return(Signal("SELL", Pct(80), "vwap above"))
    ELSE Return(Signal("HOLD", Pct(50), "vwap near"))

_ema_crossover(df) ==
    IF df.n < 3 THEN Return(Signal("HOLD", Pct(50), "ema none"))
    ELSE IF df.ema = "golden" /\ df.ema_50 = "above"
    THEN Return(Signal("BUY", Pct(65), "ema golden cross"))
    ELSE IF df.ema = "death" /\ df.ema_50 = "below"
    THEN Return(Signal("SELL", Pct(65), "ema death cross"))
    ELSE IF df.ema \in {"golden", "above"} /\ df.ema_50 = "above"
    THEN Return(Signal("BUY", Pct(55), "ema bullish trend"))
    ELSE IF df.ema \in {"death", "below"} /\ df.ema_50 = "below"
    THEN Return(Signal("SELL", Pct(55), "ema bearish trend"))
    ELSE Return(Signal("HOLD", Pct(50), "ema none"))

\* the five modules on the window with its indicators
ModuleResults(df) ==
    [bollinger_mean_reversion |-> _bollinger_mean_reversion(df),
     rsi_divergence |-> _rsi_divergence(df),
     macd_histogram |-> _macd_histogram(df),
     vwap |-> _vwap_strategy(df),
     ema_crossover |-> _ema_crossover(df)]

\* lines 107-114: the indicators of the last bar
Metrics(df) ==
    [rsi |-> df.rsi, macd_histogram |-> df.macd,
     distance_from_vwap |-> df.vwap, bollinger_position |-> df.bb]

\* lines 62-115 once the modules have returned: raises when one of them did
AnalyzeResult(self, caller_df, df, results) ==
    IF \E k \in DOMAIN results : results[k].raised
    THEN [self |-> self, df |-> caller_df, raised |-> TRUE]
    ELSE [self |-> self, df |-> caller_df, raised |-> FALSE,
          result |-> [consensus |-> analyze([k \in DOMAIN results |-> results[k].signal]),
                      metrics |-> Metrics(df)]]

\* ProvenStrategies.analyze computing the indicators in the caller's window
ProvenStrategies_analyze_InPlace(self, df) ==
    AnalyzeResult(self, _calculate_indicators(df), _calculate_indicators(df),
                  ModuleResults(_calculate_indicators(df)))

\* ProvenStrategies.analyze on the caller's window: the object and the
\* caller's window after the call, and the result or the exception
ProvenStrategies_analyze(self, df) ==
    AnalyzeResult(self, df, _calculate_indicators(df),
                  ModuleResults(_calculate_indicators(df)))

\* ProvenStrategies.__init__
ProvenStrategies == [name |-> "Proven Professional Strategies"]

MaxCalls == 2

InitStrategies ==
    /\ config = DefaultConfig
    /\ SetInit(NewBot(config))
    /\ circuit_breaker = NewBot(config).circuit_breaker
    /\ now = 0
    /\ pc = "strategies"
    /\ last = NoOp
    /\ \E df \in Windows :
         fusion = [fn |-> "window", self |-> ProvenStrategies, df |-> df, calls |-> 0]

BollingerMeanReversion ==
    /\ fusion.fn = "window"
    /\ fusion' = [fn |-> "_bollinger_mean_reversion", df |-> fusion.df,
                  result |-> _bollinger_mean_reversion(_calculate_indicators(fusion.df))]
    /\ UNCHANGED fusionFrame

RsiDivergence ==
    /\ fusion.fn = "window"
    /\ fusion' = [fn |-> "_rsi_divergence", df |-> fusion.df,
                  result |-> _rsi_divergence(_calculate_indicators(fusion.df))]
    /\ UNCHANGED fusionFrame

MacdHistogram ==
    /\ fusion.fn = "window"
    /\ fusion' = [fn |-> "_macd_histogram", df |-> fusion.df,
                  result |-> _macd_histogram(_calculate_indicators(fusion.df))]
    /\ UNCHANGED fusionFrame

VwapStrategy ==
    /\ fusion.fn = "window"
    /\ fusion' = [fn |-> "_vwap_strategy", df |-> fusion.df,
                  result |-> _vwap_strategy(_calculate_indicators(fusion.df))]
    /\ UNCHANGED fusionFrame

EmaCrossover ==
    /\ fusion.fn = "window"
    /\ fusion' = [fn |-> "_ema_crossover", df |-> fusion.df,
                  result |-> _ema_crossover(_calculate_indicators(fusion.df))]
    /\ UNCHANGED fusionFrame

\* analyze called, and called again, on the window the caller holds
ProvenAnalyze ==
    /\ fusion.fn \in {"window", "ProvenStrategies.analyze"}
    /\ fusion.calls < MaxCalls
    /\ LET r == ProvenStrategies_analyze(fusion.self, fusion.df)
       IN  fusion' = [fn |-> "ProvenStrategies.analyze", self |-> r.self,
                      df |-> r.df, calls |-> fusion.calls + 1,
                      raised |-> r.raised,
                      result |-> IF r.raised THEN IndexError ELSE r.result]
    /\ UNCHANGED fusionFrame

NextStrategies ==
    \/ BollingerMeanReversion
    \/ RsiDivergence
    \/ MacdHistogram
    \/ VwapStrategy
    \/ EmaCrossover
    \/ ProvenAnalyze

SpecStrategies == InitStrategies /\ [][NextStrategies]_vars

----------------------------------------------------------------------------
(* The backtests: ProvenStrategies.backtest and AISignalFilter.backtest. The
   bars of df after the warm-up (index 50, resp. 100) are a sequence of steps:
   the result of self.analyze(window) at the bar and the bar's close. *)

MaxBars == 3

BacktestSignals ==
    { [decision |-> "HOLD", confidence |-> Pct(50), reasons |-> <<"no consensus">>],
      [decision |-> "BUY", confidence |-> Pct(60), reasons |-> <<"buy">>],
      [decision |-> "BUY", confidence |-> Rat(40, 58), reasons |-> <<"buy">>],
      [decision |-> "SELL", confidence |-> Rat(40, 58), reasons |-> <<"sell">>] }

\* closes of the bars
Closes == {Num(80), Num(125)}

Steps == [signal : BacktestSignals, close : Closes]

\* the data frames: the close of the last warm-up bar and the steps after it
Frames ==
    UNION {[warmup_close : {Num(100)}, steps : [1..n -> Steps]] : n \in 0..MaxBars}

\* df.iloc[-1]['close']
LastClose(df) ==
    IF df.steps = <<>> THEN df.warmup_close ELSE df.steps[Len(df.steps)].close

\* balance, crypto_holding and trades before the loop
BookStart(initial_balance) ==
    [balance |-> initial_balance, crypto_holding |-> Num(0), trades |-> <<>>]

\* the BUY branch: 95% of the balance is spent at the close
Bought(book, signal, current_price, amount, record) ==
    [balance |-> RSub(book.balance, amount),
     crypto_holding |-> RAdd(book.crypto_holding, RDiv(amount, current_price)),
     trades |-> Append(book.trades,
                       record @@ [type |-> "BUY",
                                  price |-> current_price,
                                  amount |-> RDiv(amount, current_price),
                                  confidence |-> signal.confidence,
                                  reasons |-> signal.reasons])]

\* the SELL branch: the whole holding is sold at the close
Sold(book, signal, current_price, amount, profit, record) ==
    [balance |-> RAdd(book.balance, amount),
     crypto_holding |-> Num(0),
     trades |-> Append(book.trades,
                       record @@ [type |-> "SELL",
                                  price |-> current_price,
                                  amount |-> book.crypto_holding,
                                  profit |-> profit,
                                  confidence |-> signal.confidence,
                                  reasons |-> signal.reasons])]

\* One iteration of the loop of ProvenStrategies.backtest
ProvenStep(book, step, initial_balance) ==
    IF /\ step.signal.decision = "BUY"
       /\ RLt(Pct(60), step.signal.confidence)
       /\ RLt(Num(0), book.balance)
    THEN Bought(book, step.signal, step.close, RMul(book.balance, Pct(95)), <<>>)
    ELSE IF /\ step.signal.decision = "SELL"
            /\ RLt(Pct(60), step.signal.confidence)
            /\ RLt(Num(0), book.crypto_holding)
    THEN Sold(book, step.signal, step.close, RMul(book.crypto_holding, step.close),
              IF Len(book.trades) % 2 = 0
              THEN RSub(RMul(book.crypto_holding, step.close), initial_balance)
              ELSE Num(0),
              <<>>)
    ELSE book

\* signal.get('ai_filter', 'N/A')
AiFilterTag(signal) ==
    [ai_filter |-> IF "ai_filter" \in DOMAIN signal THEN signal.ai_filter ELSE "N/A"]

\* One iteration of the loop of AISignalFilter.backtest
FilterStep(book, step, confidence_threshold) ==
    IF /\ step.signal.decision = "BUY"
       /\ RLt(confidence_threshold, step.signal.confidence)
       /\ RLt(Num(0), book.balance)
    THEN Bought(book, step.signal, step.close, RMul(book.balance, Pct(95)),
                AiFilterTag(step.signal))
    ELSE IF /\ step.signal.decision = "SELL"
            /\ RLt(confidence_threshold, step.signal.confidence)
            /\ RLt(Num(0), book.crypto_holding)
    THEN Sold(book, step.signal, step.close, RMul(book.crypto_holding, step.close),
              RSub(RMul(book.crypto_holding, step.close),
                   RMul(book.trades[Len(book.trades)].price,
                        book.trades[Len(book.trades)].amount)),
              AiFilterTag(step.signal))
    ELSE book

RECURSIVE ProvenLoop(_, _, _)
ProvenLoop(book, steps, initial_balance) ==
    IF steps = <<>> THEN book
    ELSE ProvenLoop(ProvenStep(book, Head(steps), initial_balance), Tail(steps),
                    initial_balance)

RECURSIVE FilterLoop(_, _, _)
FilterLoop(book, steps, confidence_threshold) ==
    IF steps = <<>> THEN book
    ELSE FilterLoop(FilterStep(book, Head(steps), confidence_threshold), Tail(steps),
                    confidence_threshold)

ZeroDivisionError == [raised |-> TRUE, error |-> "ZeroDivisionError"]

Sells(trades) == {i \in DOMAIN trades : "profit" \in DOMAIN trades[i]}

Wins(trades) == {i \in Sells(trades) : RLt(Num(0), trades[i].profit)}

\* the returned dict; the win_rate divides by the number of records that
\* have a profit
Summary(strategy, book, final_value, initial_balance) ==
    IF book.trades # <<>> /\ Sells(book.trades) = {}
    THEN ZeroDivisionError
    ELSE [raised |-> FALSE,
          strategy |-> strategy,
          initial_balance |-> initial_balance,
          final_value |-> final_value,
          profit |-> RSub(final_value, initial_balance),
          profit_pct |-> RMul(RDiv(RSub(final_value, initial_balance),
                                   initial_balance), Num(100)),
          trades |-> book.trades,
          total_trades |-> Len(book.trades),
          win_rate |-> IF book.trades = <<>> THEN Num(0)
                       ELSE Rat(Cardinality(Wins(book.trades)),
                                Cardinality(Sells(book.trades)))]

\* final_value = balance + crypto_holding * df.iloc[-1]['close']
FinalValue(book, df) == RAdd(book.balance, RMul(book.crypto_holding, LastClose(df)))

\* backtest selling what is still held at the close of the last bar
Closing_Liquidating(strategy, book, df, initial_balance) ==
    IF RLt(Num(0), book.crypto_holding) /\ df.steps # <<>>
    THEN Summary(strategy,
                 Sold(book, df.steps[Len(df.steps)].signal, LastClose(df),
                      RMul(book.crypto_holding, LastClose(df)), Num(0), <<>>),
                 FinalValue(book, df), initial_balance)
    ELSE Summary(strategy, book, FinalValue(book, df), initial_balance)

\* what follows the loop: final_value and the returned dict
Closing(strategy, book, df, initial_balance) ==
    Summary(strategy, book, FinalValue(book, df), initial_balance)

\* backtest keeping its ledger in the strategy object from one run to the next
ProvenStrategies_backtest_KeepsLedger(self, df, initial_balance) ==
    LET start == IF "trades" \in DOMAIN self
                 THEN [BookStart(initial_balance) EXCEPT !.trades = self.trades]
                 ELSE BookStart(initial_balance)
        book == ProvenLoop(start, df.steps, initial_balance)
    IN  [self |-> [name |-> self.name, trades |-> book.trades],
         ret |-> Closing("PROVEN_PROFESSIONAL", book, df, initial_balance)]

ProvenStrategies_backtest(self, df, initial_balance) ==
    [self |-> self,
     ret |-> Closing("PROVEN_PROFESSIONAL",
                     ProvenLoop(BookStart(initial_balance), df.steps, initial_balance),
                     df, initial_balance)]

\* the returned dict of AISignalFilter.backtest has the key ai_enabled too
WithAiEnabled(ret, self) ==
    IF ret.raised THEN ret ELSE ret @@ [ai_enabled |-> self.ai_enabled]

AISignalFilter_backtest(self, df, initial_balance) ==
    [self |-> self,
     ret |-> WithAiEnabled(
                 Closing(IF self.ai_enabled THEN "AI_FILTERED_PROVEN"
                         ELSE "PROVEN_PROFESSIONAL",
                         FilterLoop(BookStart(initial_balance), df.steps,
                                    IF self.ai_enabled THEN Pct(65) ELSE Pct(60)),
                         df, initial_balance),
                 self)]

\* The live loop fed the same steps: start_day, then one run_trading_cycle per
\* step, the wait between two cycles being one unit of time; an exception
\* leaving run_trading_cycle ends the loop
RECURSIVE LiveLoop(_, _, _, _)
LiveLoop(b, cfg, steps, t) ==
    IF steps = <<>> THEN b
    ELSE IF run_trading_cycle(b, cfg, Head(steps).close, Head(steps).signal, t).step
                \in CrashSteps
    THEN run_trading_cycle(b, cfg, Head(steps).close, Head(steps).signal, t).bot
    ELSE LiveLoop(run_trading_cycle(b, cfg, Head(steps).close, Head(steps).signal,
                                    t).bot,
                  cfg, Tail(steps), t + 1)

LiveRun(cfg, steps) ==
    LiveLoop([NewBot(cfg) EXCEPT !.circuit_breaker = start_day(@, cfg.initial_balance)],
             cfg, steps, 0)

MaxRuns == 2

NoRun == [raised |-> FALSE, strategy |-> "none"]

\* the configurations of the live bot the backtest is compared with
BacktestConfigs == {DefaultConfig} \cup {c \in Configs : c.position_size_percent = 100}

InitBacktest ==
    /\ config \in BacktestConfigs
    /\ SetInit(NewBot(config))
    /\ circuit_breaker = NewBot(config).circuit_breaker
    /\ now = 0
    /\ pc = "backtest"
    /\ last = NoOp
    /\ \E df \in Frames : fusion = [fn |-> "frame", df |-> df, runs |-> 0]

\* strategy.backtest(df, initial_balance) on a ProvenStrategies, and again on
\* the same object and frame
ProvenBacktest ==
    /\ pc = "backtest"
    /\ fusion.fn \in {"frame", "ProvenStrategies.backtest"}
    /\ fusion.runs < MaxRuns
    /\ LET r == ProvenStrategies_backtest(
                    IF fusion.runs = 0 THEN ProvenStrategies ELSE fusion.self,
                    fusion.df, config.initial_balance)
       IN  fusion' = [fn |-> "ProvenStrategies.backtest", self |-> r.self,
                      df |-> fusion.df, runs |-> fusion.runs + 1,
                      previous |-> IF fusion.runs = 0 THEN NoRun ELSE fusion.result,
                      result |-> r.ret]
    /\ UNCHANGED fusionFrame

\* the same on an AISignalFilter, its model loaded or not
FilterBacktest ==
    /\ pc = "backtest"
    /\ fusion.fn \in {"frame", "AISignalFilter.backtest"}
    /\ fusion.runs < MaxRuns
    /\ \E ai_enabled \in BOOLEAN :
         /\ fusion.runs > 0 => ai_enabled = fusion.self.ai_enabled
         /\ LET r == AISignalFilter_backtest(
                         IF fusion.runs = 0 THEN [ai_enabled |-> ai_enabled]
                         ELSE fusion.self,
                         fusion.df, config.initial_balance)
            IN  fusion' = [fn |-> "AISignalFilter.backtest", self |-> r.self,
                           df |-> fusion.df, runs |-> fusion.runs + 1,
                           previous |-> IF fusion.runs = 0 THEN NoRun
                                        ELSE fusion.result,
                           result |-> r.ret]
    /\ UNCHANGED fusionFrame

NextBacktest ==
    \/ ProvenBacktest
    \/ FilterBacktest

SpecBacktest == InitBacktest /\ [][NextBacktest]_vars


----------------------------------------------------------------------------
(* ClassicStrategy._macd_strategy, the MACD vote of the legacy strategy, on
   df.tail(3): rows of macd and macd_signal *)

MacdLevels == {-1, 0, 1}

MacdRows == [macd : MacdLevels, macd_signal : MacdLevels]

\* df.tail(3) of a window of two bars, and of three or more
Tails == [1..2 -> MacdRows] \cup [1..3 -> MacdRows]

\* current = df_tail.iloc[-1], previous = df_tail.iloc[-2]
_macd_strategy(df_tail) ==
    IF /\ df_tail[Len(df_tail) - 1].macd <= df_tail[Len(df_tail) - 1].macd_signal
       /\ df_tail[Len(df_tail)].macd > df_tail[Len(df_tail)].macd
    THEN "BUY"
    ELSE IF /\ df_tail[Len(df_tail) - 1].macd >= df_tail[Len(df_tail) - 1].macd_signal
            /\ df_tail[Len(df_tail)].macd < df_tail[Len(df_tail)].macd_signal
    THEN "SELL"
    ELSE "HOLD"

InitClassic ==
    /\ config = DefaultConfig
    /\ SetInit(NewBot(config))
    /\ circuit_breaker = NewBot(config).circuit_breaker
    /\ now = 0
    /\ pc = "classic"
    /\ last = NoOp
    /\ \E df_tail \in Tails : fusion = [fn |-> "df_tail", df_tail |-> df_tail]

MacdStrategy ==
    /\ pc = "classic"
    /\ fusion.fn = "df_tail"
    /\ fusion' = [fn |-> "_macd_strategy", df_tail |-> fusion.df_tail,
                  result |-> _macd_strategy(fusion.df_tail)]
    /\ UNCHANGED fusionFrame

SpecClassic == InitClassic /\ [][MacdStrategy]_vars


\* ---------------------------------------------------------------------------
\* Properties of the signal fusion (SpecFusion)
\* ---------------------------------------------------------------------------

InUnit(x) == RLe(Num(0), x) /\ RLe(x, Num(1))

\* The weights in tenths, and the tenths a decision gathers in a set of signals
Tenths ==
    [bollinger_mean_reversion |-> 12, rsi_divergence |-> 15, macd_histogram |-> 10,
     vwap |-> 13, ema_crossover |-> 8]

RECURSIVE TenthsFor(_, _, _)
TenthsFor(names, signals, decision) ==
    IF names = {} THEN 0
    ELSE LET n == CHOOSE x \in names : TRUE
         IN  (IF signals[n].decision = decision THEN Tenths[n] ELSE 0)
             + TenthsFor(names \ {n}, signals, decision)

ExpectedDecision(buy10, sell10) ==
    IF buy10 > sell10 /\ 2 * buy10 > 58 THEN "BUY"
    ELSE IF sell10 > buy10 /\ 2 * sell10 > 58 THEN "SELL"
    ELSE "HOLD"

\* C6: analyze decides BUY exactly when the BUY score exceeds the SELL score
\* and is more than half of the total weight 5.8, SELL symmetrically, and HOLD
\* in every other case, a tie of the two scores included.
C6_WeightedMajority ==
    fusion.fn = "analyze" =>
        /\ fusion.result.decision =
               ExpectedDecision(TenthsFor(DOMAIN Tenths, fusion.signals, "BUY"),
                                TenthsFor(DOMAIN Tenths, fusion.signals, "SELL"))
        /\ TenthsFor(DOMAIN Tenths, fusion.signals, "BUY")
               = TenthsFor(DOMAIN Tenths, fusion.signals, "SELL")
           => fusion.result.decision = "HOLD"

\* A BUY score above the SELL score that is not a majority of the total
\* weight has been decided HOLD
C6_Witness ==
    /\ fusion.fn = "analyze"
    /\ fusion.result.decision = "HOLD"
    /\ TenthsFor(DOMAIN Tenths, fusion.signals, "BUY")
           > TenthsFor(DOMAIN Tenths, fusion.signals, "SELL")
    /\ TenthsFor(DOMAIN Tenths, fusion.signals, "SELL") > 0

\* C7: the consensus decision is BUY, SELL or HOLD; its confidence is the
\* winning score over the total weight (above 0.5) on BUY and SELL, exactly
\* 0.50 on HOLD, and within [0, 1] in every case.
C7_ConsensusConfidence ==
    fusion.fn = "analyze" =>
        /\ fusion.result.decision \in {"BUY", "SELL", "HOLD"}
        /\ InUnit(fusion.result.confidence)
        /\ fusion.result.decision = "HOLD" => fusion.result.confidence = Rat(1, 2)
        /\ fusion.result.decision # "HOLD" =>
              /\ fusion.result.confidence =
                     Rat(TenthsFor(DOMAIN Tenths, fusion.signals,
                                   fusion.result.decision), 58)
              /\ RLt(Rat(1, 2), fusion.result.confidence)

\* A SELL decided against dissenting BUY votes, its confidence below 1
C7_Witness ==
    /\ fusion.fn = "analyze"
    /\ fusion.result.decision = "SELL"
    /\ TenthsFor(DOMAIN Tenths, fusion.signals, "BUY") > 0
    /\ fusion.result.confidence =
           Rat(TenthsFor(DOMAIN Tenths, fusion.signals, "SELL"), 58)
    /\ RLt(fusion.result.confidence, Num(1))

\* C8: whatever the path (consensus, gating by the classifier for every
\* consensus confidence and every probability, combination with the
\* classifier's own prediction), the decision handed to the execution loop
\* has a confidence within [0, 1].
C8_ConfidenceInUnit ==
    fusion.fn \in {"analyze", "_filter_signal", "_combine_signals"} =>
        InUnit(fusion.result.confidence)

\* C9: the gating by the classifier. On a BUY or SELL consensus a probability
\* above 0.70 keeps the decision with confidence min(confidence * 1.3, 0.95)
\* (CONFIRMED_STRONG), a probability in (0.55, 0.70] keeps it with confidence
\* * 1.1 (CONFIRMED), a probability of at most 0.55 gives HOLD at 0.5
\* (REJECTED) with a rejection reason appended; a HOLD consensus passes
\* through unchanged (NEUTRAL). A probability of 0.75 on a BUY of confidence
\* 0.60 gives 0.78.
C9_FilterMapping ==
    fusion.fn = "_filter_signal" =>
        LET c == fusion.classic
            p == fusion.prob_good
            r == fusion.result
        IN  /\ c.decision = "HOLD" =>
                  /\ r.decision = "HOLD"
                  /\ r.confidence = c.confidence
                  /\ r.ai_filter = "NEUTRAL"
            /\ c.decision # "HOLD" /\ RLt(Rat(70, 100), p) =>
                  /\ r.decision = c.decision
                  /\ r.confidence = RMin(RMul(c.confidence, Rat(13, 10)), Rat(95, 100))
                  /\ r.ai_filter = "CONFIRMED_STRONG"
            /\ c.decision # "HOLD" /\ RLt(Rat(55, 100), p) /\ RLe(p, Rat(70, 100)) =>
                  /\ r.decision = c.decision
                  /\ r.confidence = RMul(c.confidence, Rat(11, 10))
                  /\ r.ai_filter = "CONFIRMED"
            /\ c.decision # "HOLD" /\ RLe(p, Rat(55, 100)) =>
                  /\ r.decision = "HOLD"
                  /\ r.confidence = Rat(1, 2)
                  /\ r.ai_filter = "REJECTED"
                  /\ Len(r.reasons) = Len(c.reasons) + 1
                  /\ SubSeq(r.reasons, 1, Len(c.reasons)) = c.reasons
            /\ c.decision = "BUY" /\ c.confidence = Rat(60, 100) /\ p = Rat(75, 100) =>
                  r.confidence = Rat(78, 100)

\* A probability of 0.75 on a BUY of confidence 0.60 has given 0.78
C9_Witness ==
    /\ fusion.fn = "_filter_signal"
    /\ fusion.classic.decision = "BUY"
    /\ fusion.classic.confidence = Rat(60, 100)
    /\ fusion.prob_good = Rat(75, 100)
    /\ fusion.result.decision = "BUY"
    /\ fusion.result.confidence = Rat(78, 100)
    /\ fusion.result.ai_filter = "CONFIRMED_STRONG"

\* C10: the combination with the classifier's prediction. Equal decisions
\* give that decision at min(confidence + 0.15, 0.95); different decisions
\* give the classifier's decision at 0.70 when its confidence is above 0.80
\* and the consensus confidence below 0.65, and HOLD at 0.50 otherwise.
C10_CombineMapping ==
    fusion.fn = "_combine_signals" =>
        LET c == fusion.classic
            a == fusion.ai
            r == fusion.result
        IN  /\ c.decision = a.decision =>
                  /\ r.decision = c.decision
                  /\ r.confidence = RMin(RAdd(c.confidence, Rat(15, 100)), Rat(95, 100))
            /\ (/\ c.decision # a.decision
                /\ RLt(Rat(80, 100), a.confidence)
                /\ RLt(c.confidence, Rat(65, 100))) =>
                  /\ r.decision = a.decision
                  /\ r.confidence = Rat(70, 100)
            /\ (/\ c.decision # a.decision
                /\ ~(/\ RLt(Rat(80, 100), a.confidence)
                     /\ RLt(c.confidence, Rat(65, 100)))) =>
                  /\ r.decision = "HOLD"
                  /\ r.confidence = Rat(1, 2)

\* A classifier confident at exactly 0.80 has not overridden a weak consensus
C10_Witness ==
    /\ fusion.fn = "_combine_signals"
    /\ fusion.classic.decision # fusion.ai.decision
    /\ fusion.ai.confidence = Rat(80, 100)
    /\ RLt(fusion.classic.confidence, Rat(65, 100))
    /\ fusion.result.decision = "HOLD"


\* ---------------------------------------------------------------------------
\* Properties of the circuit breaker (SpecBreaker)
\* ---------------------------------------------------------------------------

\* (day_start_balance - current_balance) / day_start_balance
\*     >= max_daily_loss_percent / 100, for a positive day-start balance
AtLimit(cb) ==
    RLe(RMul(Num(cb.max_daily_loss_percent), cb.daily_start_balance),
        RMul(Num(100), RSub(cb.daily_start_balance, cb.current_balance)))

\* the first midnight after t
MidnightAfter(t) == CHOOSE m \in (t + 1)..(t + DayLen) : m % DayLen = 0

HasDayStart(cb) == cb.daily_start_balance \notin {None, Num(0)}

\* C2: on a breaker that is not paused and has a day-start balance,
\* check_can_trade denies, sets is_paused and sets pause_until to the next
\* midnight exactly when the loss of the day has reached the limit; otherwise
\* it permits and leaves the breaker as it was.
C2_PauseExactlyAtLimit ==
    [][ (/\ last'.op = "check_can_trade"
         /\ ~circuit_breaker.is_paused
         /\ HasDayStart(circuit_breaker)) =>
            IF AtLimit(circuit_breaker)
            THEN /\ ~last'.can_trade
                 /\ circuit_breaker' =
                        [circuit_breaker EXCEPT !.is_paused = TRUE,
                                                !.pause_until = MidnightAfter(now)]
            ELSE /\ last'.can_trade
                 /\ circuit_breaker' = circuit_breaker ]_vars

\* 10000 at the start of the day, 8900 now, a limit of 10: denied and paused
\* until the next midnight
C2_Witness ==
    /\ last.op = "check_can_trade"
    /\ last.message = "daily_loss"
    /\ ~last.can_trade
    /\ circuit_breaker.max_daily_loss_percent = 10
    /\ circuit_breaker.daily_start_balance = Num(10000)
    /\ circuit_breaker.current_balance = Num(8900)
    /\ circuit_breaker.is_paused
    /\ circuit_breaker.pause_until = MidnightAfter(now)

\* ---------------------------------------------------------------------------
\* Properties of the polling loop (Spec)
\* ---------------------------------------------------------------------------

\* C3: a cycle that reaches the gate with a paused breaker whose pause_until
\* has passed puts the breaker back to active (is_paused false, pause_until
\* cleared, consecutive_losses 0) and is permitted to trade: the bot paused
\* for a daily loss resumes on the following day.
C3_ResumesWhenDue ==
    [][ (/\ last'.op = "run_trading_cycle"
         /\ last'.gate # "not_reached"
         /\ circuit_breaker.is_paused
         /\ now >= circuit_breaker.pause_until) =>
            /\ last'.gate = "ok"
            /\ ~circuit_breaker'.is_paused
            /\ circuit_breaker'.pause_until = NoTime
            /\ circuit_breaker'.consecutive_losses = 0 ]_vars

\* the records a step appends to the ledger
Appended(old, new) == SubSeq(new, Len(old) + 1, Len(new))

IsExit(trade) ==
    /\ trade.type = "SELL"
    /\ trade.reason \in {"Stop-loss atteint", "Take-profit atteint"}

\* C5: in a cycle the exits come first, then the gate, then the entries, and
\* the stop-loss is tested before the take-profit: a position is closed at
\* most once, by the stop-loss when the price is at or under it, by the
\* take-profit only otherwise; an exit is recorded before any entry; a
\* stop-loss close that brings the loss of the day to the limit has the gate
\* deny the cycle, and no entry follows.
C5_ExitsGateEntries ==
    [][ (/\ last'.op = "run_trading_cycle"
         /\ last'.step \notin {"no_data", "raised", "empty_window"}) =>
            LET new == Appended(trades_history, trades_history')
                held == HasKey(positions, config.symbol)
            IN  /\ Len(trades_history') >= Len(trades_history)
                /\ \A i, j \in DOMAIN new :
                       (/\ new[i].type = "SELL" /\ new[j].type = "SELL"
                        /\ new[i].symbol = new[j].symbol) => i = j
                /\ (held /\ RLe(last'.df, Get(positions, config.symbol).stop_loss)) =>
                       /\ Len(new) >= 1
                       /\ new[1].type = "SELL"
                       /\ new[1].reason = "Stop-loss atteint"
                /\ (/\ held
                    /\ ~RLe(last'.df, Get(positions, config.symbol).stop_loss)
                    /\ RLe(Get(positions, config.symbol).take_profit, last'.df)) =>
                       /\ Len(new) >= 1
                       /\ new[1].type = "SELL"
                       /\ new[1].reason = "Take-profit atteint"
                /\ \A i, j \in DOMAIN new :
                       (IsExit(new[i]) /\ new[j].type = "BUY") => i < j
                /\ (/\ Len(new) >= 1
                    /\ new[1].type = "SELL"
                    /\ new[1].reason = "Stop-loss atteint"
                    /\ HasDayStart(circuit_breaker')
                    /\ AtLimit(circuit_breaker')) =>
                       /\ last'.gate = "denied"
                       /\ \A i \in DOMAIN new : new[i].type # "BUY" ]_vars

\* A stop-loss close of this cycle has reached the limit and the gate has
\* denied the cycle
C5_Witness ==
    /\ last.op = "run_trading_cycle"
    /\ last.gate = "denied"
    /\ trades_history # <<>>
    /\ trades_history[Len(trades_history)].type = "SELL"
    /\ trades_history[Len(trades_history)].reason = "Stop-loss atteint"
    /\ trades_history[Len(trades_history)].time = now
    /\ circuit_breaker.is_paused
    /\ circuit_breaker.pause_until = MidnightAfter(now)

\* ---------------------------------------------------------------------------
\* Properties of the TradingBot operations (SpecApi)
\* ---------------------------------------------------------------------------

\* between two BUY records of a symbol there is a SELL record of that symbol
NoBuyOnOpen(ledger) ==
    \A i, j \in DOMAIN ledger :
        (/\ i < j
         /\ ledger[i].type = "BUY" /\ ledger[j].type = "BUY"
         /\ ledger[i].symbol = ledger[j].symbol) =>
            \E k \in (i + 1)..(j - 1) :
                ledger[k].type = "SELL" /\ ledger[k].symbol = ledger[i].symbol

\* C1: open_position on a symbol that has an open position does not report
\* success and leaves the position, the balance and the ledger as they were;
\* the ledger never holds a BUY on top of an open position.
C1_OpenOverOpenRejected ==
    [][ /\ (last'.op = "open_position" /\ HasKey(positions, last'.symbol)) =>
               /\ last'.ret = FALSE
               /\ UNCHANGED <<positions, balance, trades_history>>
        /\ NoBuyOnOpen(trades_history') ]_vars

Crossed(pos, price) == RLe(price, pos.stop_loss) \/ RLe(pos.take_profit, price)

\* C4: in a cycle that the gate denies no position is opened, none is closed
\* on a signal, and every position that was open with neither its stop-loss
\* nor its take-profit crossed is still open and unchanged.
C4_DeniedCycleKeepsPositions ==
    [][ (last'.op = "run_trading_cycle" /\ last'.gate = "denied") =>
            /\ Len(trades_history') >= Len(trades_history)
            /\ SubSeq(trades_history', 1, Len(trades_history)) = trades_history
            /\ \A i \in DOMAIN Appended(trades_history, trades_history') :
                   IsExit(Appended(trades_history, trades_history')[i])
            /\ \A s \in Symbols :
                   /\ HasKey(positions', s) => HasKey(positions, s)
                   /\ (/\ HasKey(positions, s)
                       /\ ~Crossed(Get(positions, s), last'.df)) =>
                          /\ HasKey(positions', s)
                          /\ Get(positions', s) = Get(positions, s) ]_vars

\* A denied cycle has ended with a position still open whose stop-loss and
\* take-profit the price of the cycle does not cross
C4_Witness ==
    /\ last.op = "run_trading_cycle"
    /\ last.gate = "denied"
    /\ circuit_breaker.is_paused
    /\ \E s \in Symbols :
           /\ HasKey(positions, s)
           /\ ~Crossed(Get(positions, s), last.df)


\* C11: both policies fail open. With the model absent or not loaded, or with
\* an exception raised while filtering, analyze returns the consensus as it
\* was computed (same decision, confidence and reasons, no filter tag) and
\* leaves the strategy object as it was, so that the next call filters again.
C11_FailOpen ==
    [][ fusion'.fn \in {"AISignalFilter.analyze", "AIStrategy.analyze"} =>
            /\ (~fusion.self.ai_enabled \/ fusion'.outcome.raised) =>
                   /\ fusion'.result = fusion.classic
                   /\ fusion'.result.decision = fusion.classic.decision
                   /\ fusion'.result.confidence = fusion.classic.confidence
                   /\ fusion'.result.reasons = fusion.classic.reasons
                   /\ "ai_filter" \notin DOMAIN fusion'.result
                   /\ "ai_agreement" \notin DOMAIN fusion'.result
            /\ fusion'.self = fusion.self
            /\ (/\ fusion.self.ai_enabled /\ ~fusion'.outcome.raised
                /\ fusion'.fn = "AISignalFilter.analyze") =>
                   "ai_filter" \in DOMAIN fusion'.result
            /\ (/\ fusion.self.ai_enabled /\ ~fusion'.outcome.raised
                /\ fusion'.fn = "AIStrategy.analyze") =>
                   "ai_agreement" \in DOMAIN fusion'.result ]_vars

\* After a call that fell back on an exception, the next call has filtered
C11_Witness ==
    /\ fusion.fn = "AISignalFilter.analyze"
    /\ fusion.self.ai_enabled
    /\ fusion.prev = "raised"
    /\ ~fusion.outcome.raised
    /\ fusion.classic.decision = "BUY"
    /\ "ai_filter" \in DOMAIN fusion.result
    /\ fusion.result.ai_filter = "REJECTED"


\* ---------------------------------------------------------------------------
\* Properties of the strategy modules on a window (SpecStrategies)
\* ---------------------------------------------------------------------------

\* the bars each module needs before it can decide anything but HOLD
NeededBars ==
    [_bollinger_mean_reversion |-> 20, _rsi_divergence |-> 10,
     _macd_histogram |-> 35, _vwap_strategy |-> 20, _ema_crossover |-> 50]

\* C12: on a window of any length, 0, 1 and 2 bars included, none of the five
\* strategy modules raises, and each returns HOLD at 0.50 when the history it
\* needs is missing; the divergence module returns HOLD at 0.50 on every
\* window of fewer than 10 bars.
C12_HoldOnMissingHistory ==
    fusion.fn \in DOMAIN NeededBars =>
        /\ ~fusion.result.raised
        /\ fusion.df.n < NeededBars[fusion.fn] =>
               /\ fusion.result.signal.decision = "HOLD"
               /\ fusion.result.signal.confidence = Rat(1, 2)


\* ---------------------------------------------------------------------------
\* Properties of the polling loop under faults (Spec)
\* ---------------------------------------------------------------------------

\* a cycle that met a fault of the data or of the analysis
FaultyCycle(record) ==
    /\ record.op = "run_trading_cycle"
    /\ record.step \in {"no_data", "empty_window", "analysis_raised"}

\* C13: a fault of the data or of the model in one cycle (no data fetched, an
\* empty or too short window, an exception in the analysis) never ends the
\* loop: the cycle leaves balance, positions, ledger and breaker as they were
\* and the loop goes on to its wait.
C13_FaultyCycleHarmless ==
    [][ FaultyCycle(last') =>
            /\ pc' = "sleep"
            /\ UNCHANGED <<balance, positions, trades_history, circuit_breaker>> ]_vars


\* the cash that the ledger accounts for, from the balance start
RECURSIVE Cash(_, _)
Cash(ledger, start) ==
    IF ledger = <<>> THEN start
    ELSE LET trade == ledger[Len(ledger)]
             before == Cash(SubSeq(ledger, 1, Len(ledger) - 1), start)
         IN  IF trade.type = "BUY" THEN RSub(before, trade.value)
             ELSE RAdd(before, RMul(trade.amount, trade.exit_price))

Count(ledger, type) == Cardinality({i \in DOMAIN ledger : ledger[i].type = type})

\* the last record of the symbol in the ledger is a BUY
OpenPerLedger(ledger, s) ==
    \E i \in DOMAIN ledger :
        /\ ledger[i].symbol = s /\ ledger[i].type = "BUY"
        /\ \A j \in (i + 1)..Len(ledger) : ledger[j].symbol # s

LastSell(ledger) ==
    IF Count(ledger, "SELL") = 0 THEN 0
    ELSE CHOOSE i \in DOMAIN ledger :
            ledger[i].type = "SELL" /\ \A j \in (i + 1)..Len(ledger) : ledger[j].type = "BUY"

\* positions, balance, ledger, counters and the breaker's balance agree, as
\* they do between two cycles
Consistent ==
    /\ balance = Cash(trades_history, config.initial_balance)
    /\ \A s \in Symbols : HasKey(positions, s) <=> OpenPerLedger(trades_history, s)
    /\ total_trades = Count(trades_history, "BUY")
    /\ winning_trades + losing_trades = Count(trades_history, "SELL")
    /\ circuit_breaker.current_balance =
           Cash(SubSeq(trades_history, 1, LastSell(trades_history)),
                config.initial_balance)

\* C14: the loop stops on a KeyboardInterrupt between two cycles only: when
\* it has stopped no trade is half-applied, positions, balance, ledger,
\* counters and the breaker's current_balance agree.
C14_StoppedConsistent == pc = "stopped" => Consistent

\* the cycle on the close df passes check_positions and the gate with the
\* position of the configured symbol open
GatePassedHolding(df) ==
    /\ ~check_positions(Bot, config, df, now).raised
    /\ HasKey(check_positions(Bot, config, df, now).bot.positions, config.symbol)
    /\ check_can_trade(check_positions(Bot, config, df, now).bot.circuit_breaker,
                       now).can_trade

\* C15: a cycle that passes the circuit-breaker gate with a SELL decision of
\* the strategy while the position of the configured symbol is open closes
\* that position, whatever max_positions is.
C15_SellCloses ==
    pc = "cycle" =>
        \A df \in Prices, signal \in Signals :
            (signal.decision = "SELL" /\ GatePassedHolding(df))
                => ~HasKey(run_trading_cycle(Bot, config, df, signal, now).bot.positions,
                           config.symbol)

\* the cycle recorded in last' obtained a decision from the strategy, and
\* its confidence does not exceed min_confidence
AtOrBelowThreshold(record) ==
    /\ record.op = "run_trading_cycle"
    /\ record.signal.decision \in Decisions
    /\ RLe(record.signal.confidence, config.min_confidence)

\* C16: a BUY or SELL decision whose confidence does not exceed min_confidence,
\* like a HOLD decision, neither opens nor closes: positions, balance and
\* ledger are what check_positions left.
C16_TradeOnlyAboveThreshold ==
    [][AtOrBelowThreshold(last') =>
          /\ positions' = check_positions(Bot, config, last'.df, now).bot.positions
          /\ balance' = check_positions(Bot, config, last'.df, now).bot.balance
          /\ trades_history' =
                 check_positions(Bot, config, last'.df, now).bot.trades_history]_vars

\* ---------------------------------------------------------------------------
\* Properties of the backtests (SpecBacktest)
\* ---------------------------------------------------------------------------

\* type, price and amount of the records of a backtest ledger
BacktestEntries(trades) ==
    [i \in DOMAIN trades |-> <<trades[i].type, trades[i].price, trades[i].amount>>]

\* the same of the records of the live ledger
LiveEntries(trades) ==
    [i \in DOMAIN trades |->
        <<trades[i].type,
          IF trades[i].type = "BUY" THEN trades[i].price ELSE trades[i].exit_price,
          trades[i].amount>>]

\* C17: fed the same steps (decision, confidence, price) under the same
\* configuration, the backtest loop and the live cycle produce the same
\* sequence of BUY/SELL ledger entries.
C17_BacktestAsLive ==
    (fusion.fn = "ProvenStrategies.backtest" /\ ~fusion.result.raised)
        => BacktestEntries(fusion.result.trades)
               = LiveEntries(LiveRun(config, fusion.df.steps).trades_history)

BacktestDone == fusion.fn \in {"ProvenStrategies.backtest", "AISignalFilter.backtest"}

RECURSIVE LedgerCash(_, _)
LedgerCash(trades, start) ==
    IF trades = <<>> THEN start
    ELSE LET t == trades[Len(trades)]
             before == LedgerCash(SubSeq(trades, 1, Len(trades) - 1), start)
         IN  IF t.type = "BUY" THEN RSub(before, RMul(t.price, t.amount))
             ELSE RAdd(before, RMul(t.price, t.amount))

RECURSIVE LedgerHolding(_)
LedgerHolding(trades) ==
    IF trades = <<>> THEN Num(0)
    ELSE LET t == trades[Len(trades)]
             before == LedgerHolding(SubSeq(trades, 1, Len(trades) - 1))
         IN  IF t.type = "BUY" THEN RAdd(before, t.amount) ELSE RSub(before, t.amount)

SellSteps(steps) == {i \in DOMAIN steps : steps[i].signal.decision = "SELL"}

\* C20: backtest sells nothing at the end of the bars: every SELL record
\* answers a SELL step, what is still held is valued at the close of the last
\* bar, final_value = cash + holding * last close, and
\* profit = final_value - initial_balance.
C20_HoldingsValuedNotSold ==
    (BacktestDone /\ ~fusion.result.raised) =>
        /\ Cardinality(Sells(fusion.result.trades))
               <= Cardinality(SellSteps(fusion.df.steps))
        /\ fusion.result.final_value =
               RAdd(LedgerCash(fusion.result.trades, config.initial_balance),
                    RMul(LedgerHolding(fusion.result.trades), LastClose(fusion.df)))
        /\ fusion.result.profit =
               RSub(fusion.result.final_value, config.initial_balance)

C20_Witness ==
    /\ BacktestDone
    /\ ~fusion.result.raised
    /\ RLt(Num(0), LedgerHolding(fusion.result.trades))
    /\ fusion.result.final_value # LedgerCash(fusion.result.trades, config.initial_balance)

\* ---------------------------------------------------------------------------
\* Properties of ProvenStrategies.analyze (SpecStrategies)
\* ---------------------------------------------------------------------------

\* C19: ProvenStrategies.analyze leaves the caller's window and the strategy
\* object as they were, and a call repeated on the unchanged window returns
\* what the call before returned: decision, confidence, reasons, signals and
\* metrics.
C19_AnalyzeIdempotent ==
    [][fusion'.fn = "ProvenStrategies.analyze" =>
          /\ fusion'.df = fusion.df
          /\ fusion'.self = fusion.self
          /\ fusion.fn = "ProvenStrategies.analyze" =>
                /\ fusion'.raised = fusion.raised
                /\ fusion'.result = fusion.result]_vars

C19_Witness ==
    /\ fusion.fn = "ProvenStrategies.analyze"
    /\ fusion.calls = 2
    /\ ~fusion.raised
    /\ fusion.result.consensus.decision # "HOLD"

\* ---------------------------------------------------------------------------
\* Properties of the circuit breaker's frame (SpecBreaker)
\* ---------------------------------------------------------------------------

\* C21: only start_day changes daily_start_balance: check_can_trade, with its
\* pause and its lazy resume, update_balance and get_status leave it as it was.
C21_DayStartOnlyByStartDay ==
    [][last'.op # "start_day" =>
          circuit_breaker'.daily_start_balance
              = circuit_breaker.daily_start_balance]_vars

\* check_can_trade has just paused the breaker on the daily loss, on a day
\* after the first
C21_Witness ==
    /\ last.op = "check_can_trade"
    /\ last.message = "daily_loss"
    /\ circuit_breaker.is_paused
    /\ circuit_breaker.pause_until > DayLen
    /\ circuit_breaker.daily_start_balance # None
    /\ circuit_breaker.current_balance # circuit_breaker.daily_start_balance

\* ---------------------------------------------------------------------------
\* Properties of the backtest ledger (SpecBacktest)
\* ---------------------------------------------------------------------------

\* what was paid for the holding of record j and of the BUY records before
\* it, back to the last SELL
RECURSIVE CostBack(_, _)
CostBack(trades, j) ==
    IF j = 0 \/ trades[j].type = "SELL" THEN Num(0)
    ELSE RAdd(RMul(trades[j].price, trades[j].amount), CostBack(trades, j - 1))

\* proceeds of the SELL record i minus what was paid for what it sells
RealizedPnl(trades, i) ==
    RSub(RMul(trades[i].price, trades[i].amount), CostBack(trades, i - 1))

\* C22: every SELL record of the backtest ledger carries the realized pnl of
\* the holdings it sells, and win_rate is the number of SELL records of
\* positive realized pnl over the number of SELL records.
C22_SellCarriesRealizedPnl ==
    (BacktestDone /\ ~fusion.result.raised) =>
        /\ \A i \in Sells(fusion.result.trades) :
               fusion.result.trades[i].profit = RealizedPnl(fusion.result.trades, i)
        /\ Sells(fusion.result.trades) # {} =>
               fusion.result.win_rate =
                   Rat(Cardinality({i \in Sells(fusion.result.trades) :
                                       RLt(Num(0), RealizedPnl(fusion.result.trades, i))}),
                       Cardinality(Sells(fusion.result.trades)))

\* ---------------------------------------------------------------------------
\* Properties of open_position and close_position called directly (SpecApi)
\* ---------------------------------------------------------------------------

\* the ledger after is the ledger before and one record of the type
OneMore(before, after, type, symbol) ==
    /\ Len(after) = Len(before) + 1
    /\ SubSeq(after, 1, Len(before)) = before
    /\ after[Len(after)].type = type
    /\ after[Len(after)].symbol = symbol

\* C23: open_position at price p with balance b creates the symbol's position
\* with amount (b * position_size_percent / 100) / p, entry_price p, stop_loss
\* p * (1 - stop_loss_percent / 100), take_profit
\* p * (1 + take_profit_percent / 100), debits b * position_size_percent / 100,
\* appends one BUY record, adds one to total_trades and leaves the circuit
\* breaker and the win/loss counters alone.
C23_OpenPositionEffect ==
    [][last'.op = "open_position" =>
          /\ HasKey(positions', last'.symbol)
          /\ Get(positions', last'.symbol).amount =
                 RDiv(RMul(balance, Pct(config.position_size_percent)), last'.price)
          /\ Get(positions', last'.symbol).entry_price = last'.price
          /\ Get(positions', last'.symbol).stop_loss =
                 RMul(last'.price, RSub(Num(1), Pct(config.stop_loss_percent)))
          /\ Get(positions', last'.symbol).take_profit =
                 RMul(last'.price, RAdd(Num(1), Pct(config.take_profit_percent)))
          /\ balance' = RSub(balance, RMul(balance, Pct(config.position_size_percent)))
          /\ OneMore(trades_history, trades_history', "BUY", last'.symbol)
          /\ total_trades' = total_trades + 1
          /\ circuit_breaker' = circuit_breaker
          /\ winning_trades' = winning_trades
          /\ losing_trades' = losing_trades]_vars

\* open_position has acted on a balance that an earlier trade had changed
C23_Witness ==
    /\ last.op = "open_position"
    /\ Len(trades_history) >= 2
    /\ HasKey(positions, last.symbol)
    /\ RLt(Num(0), balance)
    /\ RLt(balance, RSub(config.initial_balance,
                         trades_history[Len(trades_history)].value))

\* amount * exit_price - amount * entry_price of the position at the price
PnlAt(pos, price) == RSub(RMul(pos.amount, price), RMul(pos.amount, pos.entry_price))

\* C24: close_position on a symbol with an open position credits the balance
\* by amount * exit_price, appends one SELL record with
\* pnl = amount * exit_price - amount * entry_price, removes the position,
\* counts a win iff pnl > 0 and passes the new balance to the circuit breaker;
\* on a symbol with no open position it returns False and changes nothing.
C24_ClosePositionEffect ==
    [][last'.op = "close_position" =>
          IF HasKey(positions, last'.symbol)
          THEN /\ ~last'.raised
               /\ last'.ret
               /\ balance' = RAdd(balance, RMul(Get(positions, last'.symbol).amount,
                                                last'.price))
               /\ OneMore(trades_history, trades_history', "SELL", last'.symbol)
               /\ trades_history'[Len(trades_history')].pnl =
                      PnlAt(Get(positions, last'.symbol), last'.price)
               /\ ~HasKey(positions', last'.symbol)
               /\ IF RLt(Num(0), PnlAt(Get(positions, last'.symbol), last'.price))
                  THEN /\ winning_trades' = winning_trades + 1
                       /\ losing_trades' = losing_trades
                  ELSE /\ winning_trades' = winning_trades
                       /\ losing_trades' = losing_trades + 1
               /\ circuit_breaker'.current_balance = balance'
          ELSE /\ ~last'.ret
               /\ UNCHANGED <<balance, positions, trades_history, total_trades,
                              winning_trades, losing_trades, circuit_breaker>>]_vars

\* ---------------------------------------------------------------------------
\* Properties of the legacy MACD vote (SpecClassic)
\* ---------------------------------------------------------------------------

\* C25: the MACD vote is BUY when the previous bar has macd <= macd_signal and
\* the current bar macd > macd_signal, SELL when the previous bar has
\* macd >= macd_signal and the current bar macd < macd_signal, else HOLD.
C25_MacdBothDirections ==
    fusion.fn = "_macd_strategy" =>
        fusion.result =
            IF /\ fusion.df_tail[Len(fusion.df_tail) - 1].macd
                      <= fusion.df_tail[Len(fusion.df_tail) - 1].macd_signal
               /\ fusion.df_tail[Len(fusion.df_tail)].macd
                      > fusion.df_tail[Len(fusion.df_tail)].macd_signal
            THEN "BUY"
            ELSE IF /\ fusion.df_tail[Len(fusion.df_tail) - 1].macd
                           >= fusion.df_tail[Len(fusion.df_tail) - 1].macd_signal
                    /\ fusion.df_tail[Len(fusion.df_tail)].macd
                           < fusion.df_tail[Len(fusion.df_tail)].macd_signal
            THEN "SELL"
            ELSE "HOLD"

\* ---------------------------------------------------------------------------
\* More properties of the backtests (SpecBacktest)
\* ---------------------------------------------------------------------------

\* C26: both backtests return a summary, with a win_rate in [0, 1], whatever
\* the bars: also when the ledger is empty and when it has BUY records and no
\* SELL record.
C26_BacktestReturnsWinRate ==
    BacktestDone =>
        /\ ~fusion.result.raised
        /\ InUnit(fusion.result.win_rate)

\* ---------------------------------------------------------------------------
\* Invariants of the live bot's books (Spec)
\* ---------------------------------------------------------------------------

\* the loop is between two cycles, or was left by an exception or by a
\* KeyboardInterrupt during the wait: no operation was cut short
AfterCycles == ~(last.op = "KeyboardInterrupt" /\ "during" \in DOMAIN last)

\* sum over the open positions of amount * entry_price
RECURSIVE EntryValues(_)
EntryValues(d) ==
    IF d = <<>> THEN Num(0)
    ELSE RAdd(RMul(Head(d)[2].amount, Head(d)[2].entry_price), EntryValues(Tail(d)))

\* sum of pnl over the SELL records
RECURSIVE PnlSum(_)
PnlSum(ledger) ==
    IF ledger = <<>> THEN Num(0)
    ELSE RAdd(IF Head(ledger).type = "SELL" THEN Head(ledger).pnl ELSE Num(0),
              PnlSum(Tail(ledger)))

\* C27: after any sequence of trading cycles, balance plus the entry values
\* of the open positions is initial_balance plus the pnl of the SELL records,
\* and the balance is not negative (position_size_percent is in 1..100).
C27_CashConserved ==
    (AfterCycles /\ config.position_size_percent \in 1..100) =>
        /\ RAdd(balance, EntryValues(positions))
               = RAdd(config.initial_balance, PnlSum(trades_history))
        /\ RLe(Num(0), balance)

\* a position is open again after an exit that made or lost money
C27_Witness ==
    /\ AfterCycles
    /\ last.op = "run_trading_cycle"
    /\ positions # <<>>
    /\ Len(trades_history) >= 3
    /\ PnlSum(trades_history) # Num(0)

\* BUY at the odd places of the ledger, SELL at the even ones, all of the
\* configured symbol
Alternates(ledger) ==
    \A i \in DOMAIN ledger :
        /\ ledger[i].symbol = config.symbol
        /\ ledger[i].type = IF i % 2 = 1 THEN "BUY" ELSE "SELL"

BooksAgree ==
    /\ Alternates(trades_history)
    /\ Len(positions) = Count(trades_history, "BUY") - Count(trades_history, "SELL")
    /\ Len(positions) \in {0, 1}
    /\ total_trades = Count(trades_history, "BUY")
    /\ winning_trades + losing_trades = Count(trades_history, "SELL")

\* C28: through the trading cycles the ledger only grows, and after each of
\* them its BUY and SELL records alternate from a BUY, the number of open
\* positions is #BUY - #SELL and is 0 or 1, total_trades is #BUY and
\* winning_trades + losing_trades is #SELL.
C28_BooksAgree ==
    [][/\ Len(trades_history') >= Len(trades_history)
       /\ SubSeq(trades_history', 1, Len(trades_history)) = trades_history
       /\ AfterCycles' => BooksAgree']_vars

\* a cycle has closed the position with a gain, the ledger holding a full
\* BUY/SELL pair
C28_Witness ==
    /\ last.op = "run_trading_cycle"
    /\ last.step = "close"
    /\ positions = <<>>
    /\ winning_trades >= 1
    /\ Len(trades_history) >= 2

\* C29: in the ledger of a backtest BUY and SELL records alternate from a
\* BUY: no BUY is executed while crypto is held, every SELL sells what the
\* BUY just before it bought.
C29_BacktestAlternates ==
    (BacktestDone /\ ~fusion.result.raised) =>
        \A i \in DOMAIN fusion.result.trades :
            fusion.result.trades[i].type = IF i % 2 = 1 THEN "BUY" ELSE "SELL"

\* the records that the step appends to the ledger
Added(before, after) == SubSeq(after, Len(before) + 1, Len(after))

\* C30: a trading cycle appends at most one SELL and at most one BUY record;
\* when it appends both the SELL, a stop-loss or take-profit exit, comes
\* first; and it closes only a position that was open when it began.
C30_OneExitOneEntry ==
    [][last'.op = "run_trading_cycle" =>
          /\ Count(Added(trades_history, trades_history'), "SELL") <= 1
          /\ Count(Added(trades_history, trades_history'), "BUY") <= 1
          /\ Len(Added(trades_history, trades_history')) = 2 =>
                /\ Added(trades_history, trades_history')[1].type = "SELL"
                /\ Added(trades_history, trades_history')[1].reason
                       \in {"Stop-loss atteint", "Take-profit atteint"}
                /\ Added(trades_history, trades_history')[2].type = "BUY"
          /\ Count(Added(trades_history, trades_history'), "SELL") = 1 =>
                HasKey(positions, config.symbol)]_vars

\* a cycle has left by stop-loss or take-profit and entered again
C30_Witness ==
    /\ last.op = "run_trading_cycle"
    /\ last.step = "open"
    /\ Len(trades_history) >= 3
    /\ trades_history[Len(trades_history) - 1].type = "SELL"
    /\ trades_history[Len(trades_history) - 1].time = now
    /\ trades_history[Len(trades_history)].time = now

====
